---- MODULE Spec2Model ----
(***************************************************************************)
(* Model of the pyetl extraction core: the rate/numeric parser of          *)
(* AccountsBusinessRules, the table discovery of ExcelParser, the          *)
(* ETLPipeline transform/validate steps and the Validator.                 *)
(*                                                                         *)
(* Python strings are sequences of one-character strings.  A Python float  *)
(* obtained from a decimal literal is kept as its decimal digits           *)
(* (integer digits without leading zeros, fraction digits without trailing *)
(* zeros); within the bounds used here (at most 15 significant digits) a   *)
(* double identifies that decimal uniquely.  A call that raises is the     *)
(* value [tag |-> "raise", exc |-> <exception type>].                      *)
(***************************************************************************)
EXTENDS Integers, Sequences, FiniteSets, TLC

VARIABLES
    pc,          \* position of the driver of the operation under study
    cell,        \* the raw cell value handed to the rate parser
    rate,        \* what parse_rate_value returned (or raised)
    num,         \* what _extract_numeric_value returned (or raised)
    sheet,       \* the rows of the worksheet handed to ExcelParser
    tables,      \* what find_tables_in_sheet / extract_all_tables returned
    table,       \* the table handed to classify_table_type
    ttype,       \* what classify_table_type returned
    transformed, \* what ETLPipeline._transform_data returned (or raised)
    vdata,       \* the transformed data handed to a validator
    report,      \* the validation report a validator returned
    shape,       \* how the input under study was put together
    operand,     \* the argument handed to the operation under study
    outcome,     \* what the operation under study returned (or raised)
    doc,         \* the Document process_excel_file is building
    sheet_no,    \* position of process_excel_file in its relevant sheets
    pending,     \* services of the current sheet not yet added
    validation_report, \* what validate_document returned
    save_calls   \* the documents handed to save_document so far

vars == <<pc, cell, rate, num, sheet, tables, table, ttype, transformed,
          vdata, report, shape, operand, outcome, doc, sheet_no,
          pending, validation_report, save_calls>>

-----------------------------------------------------------------------------
(* Characters and Python str methods                                       *)

Digits == {"0", "1", "2", "3", "4", "5", "6", "7", "8", "9"}

\* what \s matches and what str.strip() removes
WhitespaceChars == {" ", "\t", "\n"}

LowerAlpha ==
    <<"a", "b", "c", "d", "e", "f", "g", "h", "i", "j", "k", "l", "m",
      "n", "o", "p", "q", "r", "s", "t", "u", "v", "w", "x", "y", "z",
      "ó", "á", "é", "í", "ú", "ñ">>

UpperAlpha ==
    <<"A", "B", "C", "D", "E", "F", "G", "H", "I", "J", "K", "L", "M",
      "N", "O", "P", "Q", "R", "S", "T", "U", "V", "W", "X", "Y", "Z",
      "Ó", "Á", "É", "Í", "Ú", "Ñ">>

LowerChar(c) ==
    IF \E i \in 1..Len(UpperAlpha) : UpperAlpha[i] = c
    THEN LowerAlpha[CHOOSE i \in 1..Len(UpperAlpha) : UpperAlpha[i] = c]
    ELSE c

UpperChar(c) ==
    IF \E i \in 1..Len(LowerAlpha) : LowerAlpha[i] = c
    THEN UpperAlpha[CHOOSE i \in 1..Len(LowerAlpha) : LowerAlpha[i] = c]
    ELSE c

\* str.lower()
Lower(s) == [i \in 1..Len(s) |-> LowerChar(s[i])]

IsAlnum(c) ==
    \/ c \in Digits
    \/ \E i \in 1..Len(LowerAlpha) : c = LowerAlpha[i] \/ c = UpperAlpha[i]

RECURSIVE LStrip(_)
LStrip(s) ==
    IF s # <<>> /\ Head(s) \in WhitespaceChars THEN LStrip(Tail(s)) ELSE s

RECURSIVE RStrip(_)
RStrip(s) ==
    IF s # <<>> /\ s[Len(s)] \in WhitespaceChars
    THEN RStrip(SubSeq(s, 1, Len(s) - 1))
    ELSE s

\* str.strip()
Strip(s) == RStrip(LStrip(s))

\* str.replace(c, '')
RECURSIVE RemoveChar(_, _)
RemoveChar(s, c) ==
    IF s = <<>> THEN <<>>
    ELSE IF Head(s) = c THEN RemoveChar(Tail(s), c)
    ELSE <<Head(s)>> \o RemoveChar(Tail(s), c)

\* str.replace(c, d) for single characters
ReplaceChar(s, c, d) == [i \in 1..Len(s) |-> IF s[i] = c THEN d ELSE s[i]]

\* the first position at or after i that holds c (Len(s)+1 if none)
RECURSIVE IndexFrom(_, _, _)
IndexFrom(s, c, i) ==
    IF i > Len(s) \/ s[i] = c THEN i ELSE IndexFrom(s, c, i + 1)

RECURSIVE Split(_, _)
\* the pieces of s around its first c at k, the rest split in turn
SplitAt(s, c, k) ==
    IF k > Len(s) THEN <<s>>
    ELSE <<SubSeq(s, 1, k - 1)>> \o Split(SubSeq(s, k + 1, Len(s)), c)

\* str.split(c): the pieces between the occurrences of c
Split(s, c) == SplitAt(s, c, IndexFrom(s, c, 1))

\* the literal lit occurs in s at position i
OccursAt(s, i, lit) ==
    /\ i >= 1
    /\ i + Len(lit) - 1 <= Len(s)
    /\ \A k \in 1..Len(lit) : s[i + k - 1] = lit[k]

\* the literal lit (in lower case) occurs in s at position i, ignoring case
OccursAtNoCase(s, i, lit) ==
    /\ i >= 1
    /\ i + Len(lit) - 1 <= Len(s)
    /\ \A k \in 1..Len(lit) : LowerChar(s[i + k - 1]) = lit[k]

\* Python's  lit in s
Contains(s, lit) == \E i \in 1..(Len(s) + 1) : OccursAt(s, i, lit)

\* ' '.join(parts)
RECURSIVE JoinSpace(_)
JoinSpace(parts) ==
    IF parts = <<>> THEN <<>>
    ELSE IF Len(parts) = 1 THEN parts[1]
    ELSE parts[1] \o <<" ">> \o JoinSpace(Tail(parts))

-----------------------------------------------------------------------------
(* Values                                                                  *)

\* a number, by its sign and decimal digits; float tells a Python float
\* (or numpy float64) from an int
FloatVal(neg, ip, fp) ==
    [kind |-> "num", float |-> TRUE, neg |-> neg, int |-> ip, frac |-> fp]
IntVal(neg, ip) ==
    [kind |-> "num", float |-> FALSE, neg |-> neg, int |-> ip, frac |-> <<>>]
StrVal(s) == [kind |-> "str", s |-> s]
BoolVal(b) == [kind |-> "bool", b |-> b]
NoneVal == [kind |-> "none"]
NaNVal == [kind |-> "nan"]

Zero == IntVal(FALSE, <<>>)
FloatZero == FloatVal(FALSE, <<>>, <<>>)

RECURSIVE StripLeadingZeros(_)
StripLeadingZeros(d) ==
    IF d # <<>> /\ Head(d) = "0" THEN StripLeadingZeros(Tail(d)) ELSE d

RECURSIVE StripTrailingZeros(_)
StripTrailingZeros(d) ==
    IF d # <<>> /\ d[Len(d)] = "0"
    THEN StripTrailingZeros(SubSeq(d, 1, Len(d) - 1))
    ELSE d

Raise(exc) == [tag |-> "raise", exc |-> exc]
Return(v) == [tag |-> "return", value |-> v]
ReturnNone == [tag |-> "return", value |-> NoneVal]

\* float(s), parts being s.split('.')
FloatOfParts(s, parts) ==
    IF \E i \in 1..Len(s) : s[i] \notin Digits \cup {"."} THEN Raise("ValueError")
    ELSE IF Len(parts) > 2 \/ RemoveChar(s, ".") = <<>> THEN Raise("ValueError")
    ELSE Return(FloatVal(FALSE,
                         StripLeadingZeros(parts[1]),
                         IF Len(parts) = 2 THEN StripTrailingZeros(parts[2]) ELSE <<>>))

\* float(s) for a string of digits and dots that holds at least one digit
FloatOf(s) == FloatOfParts(s, Split(s, "."))

\* int(s) for a string of digits
IntOf(s) == IntVal(FALSE, StripLeadingZeros(s))

-----------------------------------------------------------------------------
(* Regular-expression pieces                                               *)

\* end (exclusive) of the run of digits that starts at i
RECURSIVE DigitRunEnd(_, _)
DigitRunEnd(s, i) ==
    IF i <= Len(s) /\ s[i] \in Digits THEN DigitRunEnd(s, i + 1) ELSE i

\* end (exclusive) of the run of whitespace that starts at i
RECURSIVE SpaceRunEnd(_, _)
SpaceRunEnd(s, i) ==
    IF i <= Len(s) /\ s[i] \in WhitespaceChars THEN SpaceRunEnd(s, i + 1) ELSE i

RECURSIVE NumberMatchEnd(_, _)
\* (?:[.,]\d+)*  continued at e
NumberMatchMore(s, e) ==
    IF e + 1 <= Len(s) /\ s[e] \in {".", ","} /\ s[e + 1] \in Digits
    THEN NumberMatchEnd(s, e + 1)
    ELSE e

\* end (exclusive) of the greedy match of  \d+(?:[.,]\d+)*  at i (s[i] a digit)
NumberMatchEnd(s, i) == NumberMatchMore(s, DigitRunEnd(s, i))

\* the first position at or after i that holds a digit (Len(s)+1 if none)
RECURSIVE FirstDigitFrom(_, _)
FirstDigitFrom(s, i) ==
    IF i > Len(s) \/ s[i] \in Digits THEN i ELSE FirstDigitFrom(s, i + 1)

\* The pieces of the conditional pattern. Each takes the position p where
\* the piece must start, or 0 when the match has already failed, and gives
\* the position after the piece, or 0 when it does not match.

\* \d+
MatchDigits(s, p) ==
    IF p # 0 /\ p <= Len(s) /\ s[p] \in Digits THEN DigitRunEnd(s, p) ELSE 0

\* \s+
MatchSpaces(s, p) ==
    IF p # 0 /\ SpaceRunEnd(s, p) > p THEN SpaceRunEnd(s, p) ELSE 0

\* a literal, ignoring case
MatchLiteral(s, p, lit) ==
    IF p # 0 /\ OccursAtNoCase(s, p, lit) THEN p + Len(lit) ELSE 0

\* c?  ignoring case
MatchOptional(s, p, c) ==
    IF p # 0 /\ p <= Len(s) /\ LowerChar(s[p]) = c THEN p + 1 ELSE p

\* (?:[.,]\d+)?
MatchFraction(s, p) ==
    IF p # 0 /\ p + 1 <= Len(s) /\ s[p] \in {".", ","} /\ s[p + 1] \in Digits
    THEN DigitRunEnd(s, p + 1)
    ELSE p

\* (\d+)\s+incluidos?\s+sin\s+costo  matched at st, ignoring case:
\* the position after "costo", or 0 when it does not match there
CondHeadEnd(s, st) ==
    MatchLiteral(s,
        MatchSpaces(s,
            MatchLiteral(s,
                MatchSpaces(s,
                    MatchOptional(s,
                        MatchLiteral(s, MatchSpaces(s, MatchDigits(s, st)),
                                     <<"i", "n", "c", "l", "u", "i", "d", "o">>),
                        "s")),
                <<"s", "i", "n">>)),
        <<"c", "o", "s", "t", "o">>)

\* group 2 from a to the position before d2 when  \s*por  follows at d2
TailGroup(s, a, d2) ==
    IF d2 # 0 /\ OccursAtNoCase(s, SpaceRunEnd(s, d2), <<"p", "o", "r">>)
    THEN [from |-> a, to |-> d2 - 1]
    ELSE [from |-> 0, to |-> 0]

\* \$?(\d+(?:[.,]\d+)?)\s*por  matched at q, ignoring case: the bounds of
\* group 2, or from = 0 when it does not match there
CondTailAt(s, q) ==
    TailGroup(s, MatchOptional(s, q, "$"),
              MatchFraction(s, MatchDigits(s, MatchOptional(s, q, "$"))))

\* the positions the lazy  .*?  can stop at when it starts at p
\* ('.' does not match a newline)
LazyStops(s, p) ==
    {q \in p..(Len(s) + 1) : \A k \in p..(q - 1) : s[k] # "\n"}

\* the tail matches after some stretch of  .*?  that starts at p
TailMatchesAfter(s, p) ==
    p # 0 /\ \E q \in LazyStops(s, p) : CondTailAt(s, q).from # 0

\* the whole conditional pattern matches with group 1 starting at st
CondMatchesAt(s, st) == TailMatchesAfter(s, CondHeadEnd(s, st))

\* the least element of a non-empty set of positions
MinOfSet(S) == CHOOSE i \in S : \A j \in S : i <= j

\* the groups of the match that starts at st with  .*?  ending before q
CondGroupsAt(s, st, q) ==
    [found |-> TRUE,
     g1 |-> SubSeq(s, st, DigitRunEnd(s, st) - 1),
     g2 |-> SubSeq(s, CondTailAt(s, q).from, CondTailAt(s, q).to)]

\* the match with the leftmost start among starts
CondSearchFrom(s, starts) ==
    IF starts = {}
    THEN [found |-> FALSE, g1 |-> <<>>, g2 |-> <<>>]
    ELSE CondGroupsAt(s, MinOfSet(starts),
             MinOfSet({q \in LazyStops(s, CondHeadEnd(s, MinOfSet(starts))) :
                          CondTailAt(s, q).from # 0}))

\* re.search(conditional_pattern, s, re.IGNORECASE): leftmost start, and for
\* it the shortest stretch of  .*?
CondSearch(s) == CondSearchFrom(s, {st \in 1..Len(s) : CondMatchesAt(s, st)})

-----------------------------------------------------------------------------
(* AccountsBusinessRules: the numeric and rate parsers                     *)

\* the conversion of the matched number_str to a float
ConvertNumberStr(number_str) ==
    IF \E i \in 1..Len(number_str) : number_str[i] = ","
    THEN IF \E i \in 1..Len(number_str) : number_str[i] = "."
         THEN FloatOf(RemoveChar(Split(number_str, ",")[1], ".")
                         \o <<".">> \o Split(number_str, ",")[2])
         ELSE FloatOf(ReplaceChar(number_str, ",", "."))
    ELSE IF \E i \in 1..Len(number_str) : number_str[i] = "."
    THEN IF Len(Split(number_str, ".")) = 2 /\ Len(Split(number_str, ".")[2]) = 3
         THEN FloatOf(RemoveChar(number_str, "."))
         ELSE FloatOf(number_str)
    ELSE FloatOf(number_str)

\* _extract_numeric_value from the cleaned text on, the first digit being at i
ExtractFromCleaned(cleaned, i) ==
    IF Lower(cleaned) \in {<<"d", "e", "s", "d", "e", " ", "0">>, <<"0">>}
    THEN Return(FloatZero)
    ELSE IF i <= Len(cleaned)
    THEN ConvertNumberStr(SubSeq(cleaned, i, NumberMatchEnd(cleaned, i) - 1))
    ELSE ReturnNone

_extract_numeric_value(text) ==
    ExtractFromCleaned(Strip(RemoveChar(Strip(text), "$")),
                       FirstDigitFrom(Strip(RemoveChar(Strip(text), "$")), 1))

NotApplicableTokens ==
    {<<"n", "o", " ", "a", "p", "l", "i", "c", "a">>, <<"n", "o">>,
     <<"n", "/", "a">>, <<>>}

UnlimitedWords ==
    {<<"i", "l", "i", "m", "i", "t", "a", "d", "o">>,
     <<"u", "n", "l", "i", "m", "i", "t", "e", "d">>,
     <<"i", "n", "c", "l", "u", "i", "d", "o">>}

NotApplicableRate == [type |-> "not_applicable", value |-> Zero]
FixedRate(v) == [type |-> "fixed", value |-> v]
UnlimitedRate == [type |-> "unlimited", value |-> Zero]
TextRate(s) == [type |-> "text", value |-> StrVal(s)]
ConditionalRate(n, c) ==
    [type |-> "conditional", included_free |-> n, additional_cost |-> c]

\* the conditional rate of the match m, additional_cost being the value
\* extracted from its second group
ConditionalOf(m, additional_cost) ==
    IF additional_cost.tag = "raise" THEN additional_cost
    ELSE Return(ConditionalRate(IntOf(m.g1), additional_cost.value))

\* a fixed rate when a number was extracted, a text rate otherwise
FixedOrText(rate_str, numeric_value) ==
    IF numeric_value.tag = "raise" THEN numeric_value
    ELSE IF numeric_value.value # NoneVal
    THEN Return(FixedRate(numeric_value.value))
    ELSE Return(TextRate(rate_str))

\* ParseRateStr with the sentinel tokens compared without lower-casing
ParseRateStr_NoLower(rate_str) ==
    IF rate_str \in NotApplicableTokens
    THEN Return(NotApplicableRate)
    ELSE IF CondSearch(rate_str).found
    THEN ConditionalOf(CondSearch(rate_str),
                       _extract_numeric_value(CondSearch(rate_str).g2))
    ELSE IF \E word \in UnlimitedWords : Contains(Lower(rate_str), word)
    THEN Return(UnlimitedRate)
    ELSE FixedOrText(rate_str, _extract_numeric_value(rate_str))

\* ParseRateStr with the unlimited words looked for before the conditional
\* pattern
ParseRateStr_UnlimitedFirst(rate_str) ==
    IF Lower(rate_str) \in NotApplicableTokens
    THEN Return(NotApplicableRate)
    ELSE IF \E word \in UnlimitedWords : Contains(Lower(rate_str), word)
    THEN Return(UnlimitedRate)
    ELSE IF CondSearch(rate_str).found
    THEN ConditionalOf(CondSearch(rate_str),
                       _extract_numeric_value(CondSearch(rate_str).g2))
    ELSE FixedOrText(rate_str, _extract_numeric_value(rate_str))

\* the string branch of parse_rate_value, on rate_str = str(rate_value).strip()
ParseRateStr(rate_str) ==
    IF Lower(rate_str) \in NotApplicableTokens
    THEN Return(NotApplicableRate)
    ELSE IF CondSearch(rate_str).found
    THEN ConditionalOf(CondSearch(rate_str),
                       _extract_numeric_value(CondSearch(rate_str).g2))
    ELSE IF \E word \in UnlimitedWords : Contains(Lower(rate_str), word)
    THEN Return(UnlimitedRate)
    ELSE FixedOrText(rate_str, _extract_numeric_value(rate_str))

parse_rate_value(rate_value) ==
    IF rate_value.kind = "none" THEN Return(NotApplicableRate)
    ELSE IF rate_value.kind = "nan" THEN Return(NotApplicableRate)
    ELSE IF rate_value.kind \in {"num", "bool"} THEN Return(FixedRate(rate_value))
    ELSE ParseRateStr(Strip(rate_value.s))

-----------------------------------------------------------------------------
(* Inputs of the rate parser                                               *)

\* a variable the operation under study does not use
Unused == "unused"

\* the variables of the rate parser, the table parser and the ETL pipeline
pipelineVars == <<cell, rate, num, sheet, tables, table, ttype, transformed,
                  vdata, report, shape>>

PipelineUnused ==
    /\ cell = Unused /\ rate = Unused /\ num = Unused /\ sheet = Unused
    /\ tables = Unused /\ table = Unused /\ ttype = Unused
    /\ transformed = Unused /\ vdata = Unused /\ report = Unused
    /\ shape = Unused

\* the variables of ProcessDocumentUseCase.execute
processVars == <<doc, sheet_no, pending, validation_report, save_calls>>

ProcessUnused ==
    /\ doc = Unused /\ sheet_no = Unused /\ pending = Unused
    /\ validation_report = Unused /\ save_calls = Unused

\* the variables of the operations of the domain layer
domainVars == <<operand, outcome, processVars>>

DomainUnused == operand = Unused /\ outcome = Unused /\ ProcessUnused

MaxGroups == 3
MaxGroupLen == 3
MaxThousands == 2
MaxPad == 1

GroupDigits == {"0", "7"}

\* the digit groups of 1..MaxGroupLen digits used to build numbers: "0",
\* all sevens, and a seven followed by zeros (trailing zeros)
DigitGroups ==
    {<<"0">>}
        \cup {[i \in 1..n |-> "7"] : n \in 1..MaxGroupLen}
        \cup {[i \in 1..n |-> IF i = 1 THEN "7" ELSE "0"] : n \in 1..MaxGroupLen}

\* groups joined by the separators: g1 s1 g2 s2 ... gk
RECURSIVE Interleave(_, _)
Interleave(groups, seps) ==
    IF Len(groups) = 1 THEN groups[1]
    ELSE groups[1] \o <<seps[1]>> \o Interleave(Tail(groups), Tail(seps))

RECURSIVE Concat(_)
Concat(groups) ==
    IF groups = <<>> THEN <<>> ELSE Head(groups) \o Concat(Tail(groups))

\* digit groups separated by '.' and ',' in any arrangement; the shorter
\* ones also with a currency sign in front
NumericShapes ==
    UNION {{[family |-> "numeric", prefix |-> p, groups |-> g, seps |-> sp] :
               p \in IF k <= 2 THEN {<<>>, <<"$">>} ELSE {<<>>},
               g \in [1..k -> DigitGroups],
               sp \in [1..(k - 1) -> {".", ","}]} : k \in 1..MaxGroups}

\* a Colombian-formatted amount: an integer group, groups of exactly three
\* digits after '.', and an optional decimal part after ','
AmountHeads == {<<"7">>, <<"7", "0">>, <<"1", "2", "3">>}
ThousandsGroups == {<<"5", "1", "0">>, <<"0", "0", "7">>}
Decimals == {<<>>, <<"5">>, <<"5", "0">>, <<"8", "9">>}

AmountGroups ==
    {<<h>> \o t : h \in AmountHeads,
                  t \in UNION {[1..k -> ThousandsGroups] : k \in 0..MaxThousands}}

AmountText(groups, dec) ==
    Interleave(groups, [i \in 1..(Len(groups) - 1) |-> "."])
        \o (IF dec = <<>> THEN <<>> ELSE <<",">> \o dec)

CondCounts == {<<"3">>, <<"1", "2">>, <<"0">>}

ConditionalShapes ==
    {[family |-> "conditional", n |-> n, groups |-> g, dec |-> d,
      plural |-> pl, dollar |-> dl, upper |-> up] :
        n \in CondCounts, g \in AmountGroups, d \in Decimals,
        pl \in BOOLEAN, dl \in BOOLEAN, up \in BOOLEAN}

SentinelTokens ==
    {<<"n", "o", " ", "a", "p", "l", "i", "c", "a">>,
     <<"n", "o">>,
     <<"n", "/", "a">>,
     <<"i", "l", "i", "m", "i", "t", "a", "d", "o">>}

Pads == UNION {[1..k -> {" ", "\t"}] : k \in 0..MaxPad}

\* a sentinel word in any letter case (upper holds the positions written in
\* upper case), padded on both sides
SentinelShapes ==
    UNION {{[family |-> "sentinel", token |-> t, upper |-> u, left |-> l, right |-> r] :
               u \in SUBSET (1..Len(t)), l \in Pads, r \in {<<>>, <<" ">>}} :
           t \in SentinelTokens}

OtherTexts ==
    {<<"g", "r", "a", "t", "i", "s">>,
     <<"d", "e", "s", "d", "e", " ", "0">>,
     <<"D", "e", "s", "d", "e", " ", "0">>,
     <<"0">>,
     <<"$", " ", "0">>,
     <<"s", "i", "n", " ", "c", "o", "s", "t", "o">>,
     <<"I", "n", "c", "l", "u", "i", "d", "o", " ", "e", "n", " ", "e", "l", " ", "p", "l", "a", "n">>,
     <<"U", "N", "L", "I", "M", "I", "T", "E", "D">>,
     <<"3", " ", "i", "n", "c", "l", "u", "i", "d", "o", "s", " ", "s", "i", "n", " ", "c", "o", "s", "t", "o">>,
     <<"-", "5">>,
     <<"n", "o", " ", "a", "p", "l", "i", "c", "a", "b", "l", "e">>,
     <<"8", ".", "5", " ", "%">>,
     <<".">>}

NumberCells ==
    {Zero,
     IntVal(FALSE, <<"8", "9", "9", "0">>),
     FloatVal(FALSE, <<"8">>, <<"5">>),
     IntVal(TRUE, <<"5">>)}

ShapeText(sh) ==
    CASE sh.family = "numeric" ->
            sh.prefix \o Interleave(sh.groups, sh.seps)
      [] sh.family = "conditional" ->
            LET txt == sh.n \o <<" ", "i", "n", "c", "l", "u", "i", "d", "o">> \o (IF sh.plural THEN <<"s">> ELSE <<>>)
                         \o <<" ", "s", "i", "n", " ", "c", "o", "s", "t", "o", ".", " ">> \o (IF sh.dollar THEN <<"$">> ELSE <<>>)
                         \o AmountText(sh.groups, sh.dec)
                         \o <<" ", "p", "o", "r", " ", "t", "r", "a", "n", "s", "f", "e", "r", "e", "n", "c", "i", "a", " ", "a", "d", "i", "c", "i", "o", "n", "a", "l">>
            IN  IF sh.upper THEN [i \in 1..Len(txt) |-> UpperChar(txt[i])] ELSE txt
      [] sh.family = "sentinel" ->
            sh.left
              \o [i \in 1..Len(sh.token) |->
                    IF i \in sh.upper THEN UpperChar(sh.token[i]) ELSE sh.token[i]]
              \o sh.right

RateShapes ==
    NumericShapes \cup ConditionalShapes \cup SentinelShapes

RateCells ==
    {[shape |-> sh, cell |-> StrVal(ShapeText(sh))] : sh \in RateShapes}
        \cup {[shape |-> [family |-> "blank"], cell |-> StrVal(t)] :
                t \in UNION {[1..k -> {" ", "\t", "\n"}] : k \in 0..2}}
        \cup {[shape |-> [family |-> "text"], cell |-> StrVal(t)] : t \in OtherTexts}
        \cup {[shape |-> [family |-> "absent"], cell |-> c] : c \in {NoneVal, NaNVal}}
        \cup {[shape |-> [family |-> "number"], cell |-> c] : c \in NumberCells}
        \cup {[shape |-> [family |-> "boolean"], cell |-> BoolVal(b)] : b \in BOOLEAN}

-----------------------------------------------------------------------------
(* The rate parser as a state machine: a cell arrives, one of the two      *)
(* entry points is applied to it                                           *)

InitRate ==
    /\ \E in \in RateCells : shape = in.shape /\ cell = in.cell
    /\ pc = "ready"
    /\ rate = Unused
    /\ num = Unused
    /\ sheet = Unused /\ tables = Unused /\ table = Unused /\ ttype = Unused
    /\ transformed = Unused /\ vdata = Unused /\ report = Unused
    /\ DomainUnused

ParseRateValue ==
    /\ pc = "ready"
    /\ rate' = parse_rate_value(cell)
    /\ pc' = "parsed"
    /\ UNCHANGED domainVars
    /\ UNCHANGED <<cell, num, sheet, tables, table, ttype, transformed, vdata,
                   report, shape>>

ExtractNumericValue ==
    /\ pc = "ready"
    /\ cell.kind = "str"
    /\ num' = _extract_numeric_value(cell.s)
    /\ pc' = "extracted"
    /\ UNCHANGED domainVars
    /\ UNCHANGED <<cell, rate, sheet, tables, table, ttype, transformed, vdata,
                   report, shape>>

NextRate == ParseRateValue \/ ExtractNumericValue

SpecRate == InitRate /\ [][NextRate]_vars

-----------------------------------------------------------------------------
(* Claims about the rate parser (checked under SpecRate)                   *)

\* the number whose integer digits are ip and whose fraction digits are fp
Number(ip, fp) == FloatVal(FALSE, StripLeadingZeros(ip), StripTrailingZeros(fp))

\* <int>.<3 digits>(.<3 digits>)*, no comma, no currency sign
IsDottedThousands(sh) ==
    /\ sh.family = "numeric"
    /\ sh.prefix = <<>>
    /\ Len(sh.groups) >= 2
    /\ \A i \in 1..Len(sh.seps) : sh.seps[i] = "."
    /\ \A i \in 2..Len(sh.groups) : Len(sh.groups[i]) = 3

\* C1: for every string <int>.<ddd>(.<ddd>)* without comma,
\* _extract_numeric_value returns the number formed by concatenating all
\* digit groups, and parse_rate_value returns it as a fixed rate.
C1_DottedGroupsConcatenate ==
    IsDottedThousands(shape) =>
        /\ pc = "extracted" => num = Return(Number(Concat(shape.groups), <<>>))
        /\ pc = "parsed" =>
              rate = Return(FixedRate(Number(Concat(shape.groups), <<>>)))

RateTypes == {"fixed", "conditional", "unlimited", "not_applicable", "text"}

HasDigit(s) == \E i \in 1..Len(s) : s[i] \in Digits

\* C2: parse_rate_value never raises: for every cell value it returns a
\* descriptor whose type is fixed, conditional, unlimited, not_applicable or
\* text, and a string that holds no number (and is no sentinel) comes back
\* as text carrying the string.
C2_ParseRateNeverRaises ==
    pc = "parsed" =>
        /\ rate.tag = "return"
        /\ rate.value.type \in RateTypes
        /\ (/\ cell.kind = "str"
            /\ ~HasDigit(cell.s)
            /\ Lower(Strip(cell.s)) \notin NotApplicableTokens
            /\ \A w \in UnlimitedWords : ~Contains(Lower(cell.s), w))
           => rate.value = TextRate(Strip(cell.s))

\* C3: for every text "<n> incluidos sin costo ... $<amount> por ..." with
\* <amount> any Colombian-formatted number, parse_rate_value returns a
\* conditional rate with included_free = n and additional_cost = the value
\* of the whole amount.
C3_ConditionalWholeAmount ==
    (pc = "parsed" /\ shape.family = "conditional") =>
        rate = Return(ConditionalRate(IntOf(shape.n),
                                      Number(Concat(shape.groups), shape.dec)))

HasUnlimitedWord(rate_str) ==
    \E word \in UnlimitedWords : Contains(Lower(rate_str), word)

\* the stage of the check order that decides rate_str, as seen in result
DecidedInOrder(rate_str, result) ==
    IF Lower(rate_str) \in NotApplicableTokens
    THEN result = Return(NotApplicableRate)
    ELSE IF CondSearch(rate_str).found
    THEN result.tag = "return" /\ result.value.type = "conditional"
    ELSE IF HasUnlimitedWord(rate_str)
    THEN result = Return(UnlimitedRate)
    ELSE result.tag = "return" => result.value.type \in {"fixed", "text"}

\* C18: parse_rate_value decides a text by the first check that applies, in
\* the order not-applicable token, conditional pattern, unlimited word,
\* number, text: a text matching the conditional pattern is conditional
\* although it holds "incluido", and a text holding an unlimited word that
\* does not match the conditional pattern is unlimited even with digits.
C18_CheckOrder ==
    (pc = "parsed" /\ cell.kind = "str") => DecidedInOrder(Strip(cell.s), rate)

\* C18 witness: a conditional text (holding "incluido") came back
\* conditional
C18_Witness ==
    /\ pc = "parsed"
    /\ shape.family = "conditional"
    /\ HasUnlimitedWord(cell.s)
    /\ rate.tag = "return"
    /\ rate.value.type = "conditional"

IsNotApplicableInput ==
    \/ shape.family \in {"absent", "blank"}
    \/ /\ shape.family = "sentinel"
       /\ shape.token \in NotApplicableTokens

\* C4: parse_rate_value returns {type: not_applicable, value: 0} for an
\* absent cell (None, NaN), for the empty or whitespace-only string and for
\* every letter-case variant of "no aplica", "no" and "n/a"; it returns type
\* unlimited for "Ilimitado".
C4_Sentinels ==
    pc = "parsed" =>
        /\ IsNotApplicableInput => rate = Return(NotApplicableRate)
        /\ (shape.family = "sentinel" /\ shape.token = <<"i", "l", "i", "m", "i", "t", "a", "d", "o">>)
              => rate.tag = "return" /\ rate.value.type = "unlimited"

\* C4 witness: " No Aplica" has been parsed to not_applicable and
\* "Ilimitado" is in the same family of inputs
C4_Witness ==
    /\ pc = "parsed"
    /\ shape.family = "sentinel"
    /\ cell = StrVal(<<" ", "N", "o", " ", "A", "p", "l", "i", "c", "a">>)
    /\ rate = Return(NotApplicableRate)

\* a numeric string that holds a ',' and ends in its last ','-delimited group
HasDecimalComma(sh) ==
    /\ sh.family = "numeric"
    /\ sh.seps # <<>>
    /\ sh.seps[Len(sh.seps)] = ","

\* C5: when the number holds ',' (with or without '.'), the result is the
\* digits before the last ',' with every separator removed, followed by the
\* last ','-delimited group as the decimal part; this for every such string,
\* also with more than one comma.
C5_CommaIsDecimalPoint ==
    (pc = "extracted" /\ HasDecimalComma(shape)) =>
        num = Return(Number(Concat(SubSeq(shape.groups, 1, Len(shape.groups) - 1)),
                            shape.groups[Len(shape.groups)]))

-----------------------------------------------------------------------------
(* pandas: cells, frames                                                   *)

\* pd.notna(v)
NotNa(v) == v.kind \notin {"nan", "none"}

DigitChars == <<"0", "1", "2", "3", "4", "5", "6", "7", "8", "9">>

\* str(n) for a natural number n
RECURSIVE NatStr(_)
NatStr(n) ==
    IF n < 10 THEN <<DigitChars[n + 1]>>
    ELSE NatStr(n \div 10) \o <<DigitChars[(n % 10) + 1]>>

\* str(v)
PyStr(v) ==
    CASE v.kind = "str" -> v.s
      [] v.kind = "num" ->
            (IF v.neg THEN <<"-">> ELSE <<>>)
              \o (IF v.int = <<>> THEN <<"0">> ELSE v.int)
              \o (IF v.float
                  THEN <<".">> \o (IF v.frac = <<>> THEN <<"0">> ELSE v.frac)
                  ELSE <<>>)
      [] v.kind = "bool" -> IF v.b THEN <<"T", "r", "u", "e">> ELSE <<"F", "a", "l", "s", "e">>
      [] v.kind = "nan" -> <<"n", "a", "n">>
      [] v.kind = "none" -> <<"N", "o", "n", "e">>

\* pd.notna(val) and str(val).strip()
HasText(v) == NotNa(v) /\ Strip(PyStr(v)) # <<>>

\* the elements of a sequence
Range(f) == {f[i] : i \in 1..Len(f)}

RECURSIVE SeqFilter(_, _)
\* the subsequence of the positions of q in keep (a set of indices)
SeqFilter(q, keep) ==
    IF q = <<>> THEN <<>>
    ELSE SeqFilter(SubSeq(q, 1, Len(q) - 1), keep)
            \o (IF Len(q) \in keep THEN <<q[Len(q)]>> ELSE <<>>)

\* the first position of x in q (0 if absent)
RECURSIVE FirstIndex(_, _, _)
FirstIndex(q, x, i) ==
    IF i > Len(q) THEN 0 ELSE IF q[i] = x THEN i ELSE FirstIndex(q, x, i + 1)

\* the labels pandas gives the columns from the first row of the sheet:
\* the cell text, "Unnamed: j" for an empty cell, ".k" added to a repeated one
ColumnLabels(first) ==
    LET raw == [j \in 1..Len(first) |->
                  IF NotNa(first[j]) THEN PyStr(first[j])
                  ELSE <<"U", "n", "n", "a", "m", "e", "d", ":", " ">> \o NatStr(j - 1)]
        seen(j) == Cardinality({i \in 1..(j - 1) : raw[i] = raw[j]})
    IN  [j \in 1..Len(first) |->
           IF seen(j) = 0 THEN raw[j] ELSE raw[j] \o <<".">> \o NatStr(seen(j))]

\* a column of numbers and empty cells that holds an empty cell or a float
\* is read as float64
ReadAsFloat(body, j) ==
    /\ \A r \in 1..Len(body) : body[r][j].kind \in {"num", "nan"}
    /\ \E r \in 1..Len(body) : body[r][j].kind = "num"
    /\ \E r \in 1..Len(body) : body[r][j].kind = "nan" \/ body[r][j].float

\* get_sheet_data: pd.read_excel(excel_file, sheet_name) with its defaults:
\* the first row of the sheet gives the column labels, the others the rows
get_sheet_data(sh) ==
    IF sh = <<>> THEN [columns |-> <<>>, rows |-> <<>>]
    ELSE LET body == Tail(sh)
         IN  [columns |-> ColumnLabels(sh[1]),
              rows |-> [r \in 1..Len(body) |->
                          [j \in 1..Len(sh[1]) |->
                             IF body[r][j].kind = "num" /\ ReadAsFloat(body, j)
                             THEN [body[r][j] EXCEPT !.float = TRUE]
                             ELSE body[r][j]]]]

\* DataFrame.dropna(how='all') on a list of rows
DropEmptyRows(rws) ==
    SeqFilter(rws, {r \in 1..Len(rws) : \E j \in 1..Len(rws[r]) : NotNa(rws[r][j])})

\* DataFrame.dropna(axis=1, how='all')
DropEmptyColumns(frame) ==
    LET keep == {j \in 1..Len(frame.columns) :
                    \E r \in 1..Len(frame.rows) : NotNa(frame.rows[r][j])}
    IN  [columns |-> SeqFilter(frame.columns, keep),
         rows |-> [r \in 1..Len(frame.rows) |-> SeqFilter(frame.rows[r], keep)]]

\* DataFrame.empty
IsEmptyFrame(frame) == frame.rows = <<>> \/ frame.columns = <<>>

\* df.dropna(how='all').dropna(axis=1, how='all').reset_index(drop=True)
CleanFrame(frame) ==
    DropEmptyColumns([columns |-> frame.columns, rows |-> DropEmptyRows(frame.rows)])

-----------------------------------------------------------------------------
(* ExcelParser                                                             *)

HeaderPatterns ==
    {<<"t", "a", "r", "i", "f", "a">>,
     <<"p", "l", "a", "n">>,
     <<"v", "a", "l", "o", "r">>,
     <<"a", "p", "l", "i", "c", "a">>,
     <<"f", "r", "e", "c", "u", "e", "n", "c", "i", "a">>,
     <<"d", "i", "s", "c", "l", "a", "i", "m", "e", "r">>}

PlanPatterns ==
    {<<"p", "l", "a", "n", " ", "g", "-", "z", "e", "r", "o">>,
     <<"p", "l", "a", "n", " ", "p", "u", "l", "s">>,
     <<"p", "l", "a", "n", " ", "p", "r", "e", "m", "i", "e", "r">>}

_is_header_row(row) ==
    LET row_values == [i \in 1..Len(row) |->
                         IF NotNa(row[i]) THEN Strip(Lower(PyStr(row[i]))) ELSE <<>>]
        is_description_header == row_values[1] = <<"d", "e", "s", "c", "r", "i", "p", "c", "i", "ó", "n">>
        header_count ==
            Cardinality({i \in 2..Len(row) :
                            \E pat \in HeaderPatterns : Contains(row_values[i], pat)})
        has_plan_patterns ==
            \E i \in 1..Len(row) : \E pat \in PlanPatterns : Contains(row_values[i], pat)
    IN  IF is_description_header
        THEN header_count >= 2 \/ has_plan_patterns
        ELSE FALSE

\* the 0-based positions of the header rows, in ascending order
_find_header_positions(frame) ==
    LET hs == {i \in 1..Len(frame.rows) : _is_header_row(frame.rows[i])}
    IN  [k \in 1..Cardinality(hs) |->
           (CHOOSE i \in hs : Cardinality({j \in hs : j < i}) = k - 1) - 1]

MaxOf(S, dflt) == IF S = {} THEN dflt ELSE CHOOSE x \in S : \A y \in S : y <= x
MinOf2(a, b) == IF a <= b THEN a ELSE b

\* the number of leading columns _detect_table_boundaries keeps
\* (column positions are 0-based as in the code)
_detect_table_boundaries(rws) ==
    LET ncols == Len(rws[1])
        header_last == MaxOf({i \in 0..(ncols - 1) : HasText(rws[1][i + 1])}, 0)
        max_col == MinOf2(header_last + 1, ncols - 1)
        last_col_with_data ==
            MaxOf({i \in 0..max_col :
                      \E r \in 2..Len(rws) : HasText(rws[r][i + 1])} \cup {header_last},
                  header_last)
        final_col == MinOf2(last_col_with_data + 1, ncols)
    IN  MinOf2(final_col + 1, ncols)

\* new_columns: the header texts up to the first column that has neither a
\* header text nor data
RECURSIVE NewColumns(_, _, _)
NewColumns(header_row, data_rows, j) ==
    IF j > Len(header_row) THEN <<>>
    ELSE IF HasText(header_row[j])
    THEN <<Strip(PyStr(header_row[j]))>> \o NewColumns(header_row, data_rows, j + 1)
    ELSE IF \E r \in 1..Len(data_rows) : NotNa(data_rows[r][j])
    THEN <<<<"c", "o", "l", "u", "m", "n", "_">> \o NatStr(j - 1)>> \o NewColumns(header_row, data_rows, j + 1)
    ELSE <<>>

\* the name a repeated column gets: col_<counter>, counter the first one free
RECURSIVE FreeSuffixed(_, _, _)
FreeSuffixed(col, seen, counter) ==
    IF (col \o <<"_">> \o NatStr(counter)) \in seen
    THEN FreeSuffixed(col, seen, counter + 1)
    ELSE col \o <<"_">> \o NatStr(counter)

RECURSIVE MakeUniqueFrom(_, _)
MakeUniqueFrom(columns, seen) ==
    IF columns = <<>> THEN <<>>
    ELSE LET col == IF Head(columns) \in seen
                    THEN FreeSuffixed(Head(columns), seen, 1)
                    ELSE Head(columns)
         IN  <<col>> \o MakeUniqueFrom(Tail(columns), seen \cup {col})

RECURSIVE MakeUniqueFrom_NamesSeen(_, _)
\* the loop of _make_columns_unique remembering the names as they came in,
\* not the names it gave out
MakeUniqueFrom_NamesSeen(columns, seen) ==
    IF columns = <<>> THEN <<>>
    ELSE LET col == IF Head(columns) \in seen
                    THEN FreeSuffixed(Head(columns), seen, 1)
                    ELSE Head(columns)
         IN  <<col>> \o MakeUniqueFrom_NamesSeen(Tail(columns), seen \cup {Head(columns)})

_make_columns_unique_NamesSeen(columns) == MakeUniqueFrom_NamesSeen(columns, {})

_make_columns_unique(columns) == MakeUniqueFrom(columns, {})

_generate_table_name(sheet_name, table_index, header_row) ==
    IF HasText(header_row[1])
    THEN LET txt == Strip(PyStr(header_row[1]))
             cut == SubSeq(txt, 1, MinOf2(30, Len(txt)))
         IN  sheet_name \o <<"_">>
               \o [i \in 1..Len(cut) |->
                     IF IsAlnum(cut[i]) \/ cut[i] \in {"_", "-"} THEN cut[i] ELSE "_"]
    ELSE sheet_name \o <<"_", "t", "a", "b", "l", "e", "_">> \o NatStr(table_index)

NoTable == [kind |-> "none"]

\* rws: the rows of the section, labels: the column labels of the frame
_create_table_from_section(rws, labels, sheet_name, table_index, start_row, end_row) ==
    LET table_data == DropEmptyRows(rws)
    IN  IF Len(table_data) < 4 THEN NoTable
        ELSE
        LET width == _detect_table_boundaries(table_data)
            trimmed == [r \in 1..Len(table_data) |-> SubSeq(table_data[r], 1, width)]
            tlabels == SubSeq(labels, 1, width)
            header_row == trimmed[1]
            data_rows == Tail(trimmed)
            new_columns == NewColumns(header_row, data_rows, 1)
            unique_columns == _make_columns_unique(new_columns)
        IN  [kind |-> "table",
             sheet_name |-> sheet_name,
             table_index |-> table_index,
             start_row |-> start_row,
             end_row |-> end_row,
             start_col |-> 0,
             end_col |-> Len(new_columns),
             \* to_dict('records'): a frame without columns gives no records
             data |-> IF new_columns = <<>> THEN <<>>
                      ELSE [r \in 1..Len(data_rows) |->
                              [c \in Range(unique_columns) |->
                                 data_rows[r][FirstIndex(unique_columns, c, 1)]]],
             table_name |-> _generate_table_name(sheet_name, table_index, header_row),
             header_row |->
                 LET keep == {j \in 1..width :
                                 \/ tlabels[j] \in Range(unique_columns)
                                 \/ FirstIndex(tlabels, tlabels[j], 1) - 1 < Len(new_columns)}
                 IN  SeqFilter([j \in 1..width |-> [key |-> tlabels[j], value |-> header_row[j]]],
                               keep)]

\* find_tables_in_sheet running every section to the end of the grid
find_tables_in_sheet_ToEnd(sh, sheet_name) ==
    LET df_cleaned == CleanFrame(get_sheet_data(sh))
        potential_headers == _find_header_positions(df_cleaned)
        n == Len(df_cleaned.rows)
        whole == _create_table_from_section(df_cleaned.rows, df_cleaned.columns,
                                            sheet_name, 0, 0, n)
        candidate(i) ==
            _create_table_from_section(
                SubSeq(df_cleaned.rows, potential_headers[i] + 1, n),
                df_cleaned.columns, sheet_name, i - 1, potential_headers[i], n)
    IN  IF IsEmptyFrame(df_cleaned) THEN <<>>
        ELSE IF potential_headers = <<>>
        THEN IF whole # NoTable THEN <<whole>> ELSE <<>>
        ELSE SeqFilter([i \in 1..Len(potential_headers) |-> candidate(i)],
                       {i \in 1..Len(potential_headers) : candidate(i) # NoTable})

find_tables_in_sheet(sh, sheet_name) ==
    LET df_cleaned == CleanFrame(get_sheet_data(sh))
        potential_headers == _find_header_positions(df_cleaned)
        n == Len(df_cleaned.rows)
        whole == _create_table_from_section(df_cleaned.rows, df_cleaned.columns,
                                            sheet_name, 0, 0, n)
        end_idx(i) == IF i + 1 <= Len(potential_headers)
                      THEN potential_headers[i + 1] ELSE n
        candidate(i) ==
            _create_table_from_section(
                SubSeq(df_cleaned.rows, potential_headers[i] + 1, end_idx(i)),
                df_cleaned.columns, sheet_name, i - 1, potential_headers[i], end_idx(i))
    IN  IF IsEmptyFrame(df_cleaned) THEN <<>>
        ELSE IF potential_headers = <<>>
        THEN IF whole # NoTable THEN <<whole>> ELSE <<>>
        ELSE SeqFilter([i \in 1..Len(potential_headers) |-> candidate(i)],
                       {i \in 1..Len(potential_headers) : candidate(i) # NoTable})

-----------------------------------------------------------------------------
(* Table discovery as a state machine: a sheet arrives and                 *)
(* find_tables_in_sheet is applied to it                                   *)

MaxBodyRows == 5

SheetName == <<"T", "A", "R", "I", "F", "A", "S">>

\* the rows a sheet is made of here: a header row, a data row, an empty row,
\* a row whose first cell holds only blanks, a row without a first cell
HeaderRow3 == <<StrVal(<<"D", "e", "s", "c", "r", "i", "p", "c", "i", "ó", "n">>), StrVal(<<"T", "a", "r", "i", "f", "a">>), StrVal(<<"F", "r", "e", "c", "u", "e", "n", "c", "i", "a">>)>>
DataRow3 == <<StrVal(<<"R", "e", "t", "i", "r", "o">>), IntVal(FALSE, <<"5", "0", "0", "0">>), StrVal(<<"M", "e", "n", "s", "u", "a", "l">>)>>
EmptyRow3 == <<NaNVal, NaNVal, NaNVal>>
BlankFirstRow3 == <<StrVal(<<" ", " ">>), NaNVal, StrVal(<<"x">>)>>
NoFirstRow3 == <<NaNVal, IntVal(FALSE, <<"7">>), StrVal(<<"x">>)>>

TableRowPool == {HeaderRow3, DataRow3, EmptyRow3, BlankFirstRow3, NoFirstRow3}

\* a sheet: the row pandas takes the column labels from, then the body
TableSheets ==
    {<<>>} \cup
    {<<HeaderRow3>> \o body :
        body \in UNION {[1..k -> TableRowPool] : k \in 0..MaxBodyRows}}

InitTables ==
    /\ sheet \in TableSheets
    /\ pc = "ready"
    /\ tables = Unused
    /\ cell = Unused /\ rate = Unused /\ num = Unused /\ shape = Unused
    /\ table = Unused /\ ttype = Unused
    /\ transformed = Unused /\ vdata = Unused /\ report = Unused
    /\ DomainUnused

FindTablesInSheet ==
    /\ pc = "ready"
    /\ tables' = find_tables_in_sheet(sheet, SheetName)
    /\ pc' = "tables_found"
    /\ UNCHANGED domainVars
    /\ UNCHANGED <<cell, rate, num, sheet, table, ttype, transformed, vdata,
                   report, shape>>

NextTables == FindTablesInSheet

SpecTables == InitTables /\ [][NextTables]_vars

\* the candidate sections of a sheet: from each detected header row to the
\* next one (or the end of the cleaned grid); the whole grid without header
Sections(sh) ==
    LET frame == CleanFrame(get_sheet_data(sh))
        hp == _find_header_positions(frame)
        n == Len(frame.rows)
    IN  IF IsEmptyFrame(frame) THEN {}
        ELSE IF hp = <<>> THEN {[start |-> 0, end |-> n]}
        ELSE {[start |-> hp[i],
               end |-> IF i < Len(hp) THEN hp[i + 1] ELSE n] : i \in 1..Len(hp)}

\* C6: find_tables_in_sheet emits a table only when it has a header row plus
\* at least 3 data rows: every emitted table has at least 3 data rows and
\* end_row > start_row, a section of a header and 2 data rows is never
\* emitted, a section of a header and 3 non-empty data rows is emitted.
C6_MinimumTableSize ==
    pc = "tables_found" =>
        /\ \A i \in 1..Len(tables) :
              Len(tables[i].data) >= 3 /\ tables[i].end_row > tables[i].start_row
        /\ \A sec \in Sections(sheet) :
              /\ sec.end - sec.start = 3 =>
                    \A i \in 1..Len(tables) : tables[i].start_row # sec.start
              /\ sec.end - sec.start = 4 =>
                    \E i \in 1..Len(tables) :
                        tables[i].start_row = sec.start /\ tables[i].end_row = sec.end

-----------------------------------------------------------------------------
(* Partitioning of a sheet into sections: sheets long enough to hold two   *)
(* tables, made of header rows and data rows around an empty row           *)

MaxPartitionRows == 8

PartitionRowPool == {HeaderRow3, DataRow3}

\* a sheet: the row pandas takes the column labels from, then header and
\* data rows, with at most one empty row among them
PartitionSheets ==
    {<<HeaderRow3>> \o SubSeq(body, 1, MinOf2(e, Len(body))) \o gap
                    \o SubSeq(body, MinOf2(e, Len(body)) + 1, Len(body)) :
        body \in UNION {[1..k -> PartitionRowPool] : k \in 0..MaxPartitionRows},
        e \in 0..MaxPartitionRows,
        gap \in {<<>>, <<EmptyRow3>>}}

InitPartition ==
    /\ sheet \in PartitionSheets
    /\ pc = "ready"
    /\ tables = Unused
    /\ cell = Unused /\ rate = Unused /\ num = Unused /\ shape = Unused
    /\ table = Unused /\ ttype = Unused
    /\ transformed = Unused /\ vdata = Unused /\ report = Unused
    /\ DomainUnused

SpecPartition == InitPartition /\ [][NextTables]_vars

\* the rows of the cleaned grid of the sheet under study
CleanedRows == CleanFrame(get_sheet_data(sheet)).rows

\* the 0-based positions of the rows that are header rows
HeaderRowsOf(rws) == {i \in 0..(Len(rws) - 1) : _is_header_row(rws[i + 1])}

\* the end of the section that starts at header row h: the next header row
\* of hs, or the end n of the grid
SectionEnd(hs, n, h) ==
    IF \E g \in hs : g > h
    THEN CHOOSE g \in hs : g > h /\ \A f \in hs : f > h => g <= f
    ELSE n

\* the tables tbls are those of the sections of a grid of n rows whose
\* header rows are hs
PartitionedBy(tbls, hs, n) ==
    /\ \A i \in 1..Len(tbls) :
          IF hs = {}
          THEN tbls[i].start_row = 0 /\ tbls[i].end_row = n
          ELSE /\ tbls[i].start_row \in hs
               /\ tbls[i].end_row = SectionEnd(hs, n, tbls[i].start_row)
    /\ \A i, j \in 1..Len(tbls) : i < j => tbls[i].end_row <= tbls[j].start_row
    /\ hs = {} => Len(tbls) = (IF n >= 4 THEN 1 ELSE 0)
    /\ \A h \in hs :
          SectionEnd(hs, n, h) - h >= 4 => \E i \in 1..Len(tbls) : tbls[i].start_row = h

\* C11: the sections of find_tables_in_sheet are the row ranges from each
\* detected header row to the next one (the last to the end of the grid),
\* and the whole grid from row 0 when no header row is detected: every
\* emitted table starts at a section start and ends at that section's end,
\* the emitted tables are disjoint and in ascending row order, and every
\* section of at least 4 rows is emitted.
C11_Partitioning ==
    pc = "tables_found" =>
        PartitionedBy(tables, HeaderRowsOf(CleanedRows), Len(CleanedRows))

\* two tables are emitted, the second one starting where the first one ends
C11_Witness ==
    /\ pc = "tables_found"
    /\ Len(tables) = 2
    /\ tables[1].end_row = tables[2].start_row

-----------------------------------------------------------------------------
(* Header detection on its own: a row arrives and _is_header_row is        *)
(* applied to it                                                           *)

MaxOtherCells == 3

HeaderFirstCells ==
    {StrVal(<<"D", "e", "s", "c", "r", "i", "p", "c", "i", "ó", "n">>),
     StrVal(<<" ", "D", "E", "S", "C", "R", "I", "P", "C", "I", "Ó", "N", " ">>),
     StrVal(<<"C", "u", "o", "t", "a">>),
     StrVal(<<"P", "l", "a", "n", " ", "P", "r", "e", "m", "i", "e", "r">>),
     NaNVal}

HeaderOtherCells ==
    {StrVal(<<"T", "a", "r", "i", "f", "a">>),
     StrVal(<<"P", "l", "a", "n", " ", "G", "-", "Z", "e", "r", "o">>),
     StrVal(<<"A", "p", "l", "i", "c", "a", " ", "I", "v", "a">>),
     StrVal(<<"x">>),
     IntVal(FALSE, <<"7">>),
     NaNVal}

HeaderCandidateRows ==
    {<<first>> \o others :
        first \in HeaderFirstCells,
        others \in UNION {[1..k -> HeaderOtherCells] : k \in 0..MaxOtherCells}}

InitHeader ==
    /\ operand \in HeaderCandidateRows
    /\ outcome = Unused
    /\ pc = "ready"
    /\ PipelineUnused
    /\ ProcessUnused

IsHeaderRow ==
    /\ pc = "ready"
    /\ outcome' = _is_header_row(operand)
    /\ pc' = "checked"
    /\ UNCHANGED operand
    /\ UNCHANGED <<pipelineVars, processVars>>

NextHeader == IsHeaderRow

SpecHeader == InitHeader /\ [][NextHeader]_vars

\* the text of a cell as the header rule reads it: lower-cased and trimmed
NormalizedCell(v) == IF NotNa(v) THEN Strip(Lower(PyStr(v))) ELSE <<>>

\* the row starts with the description sentinel and at least two of its
\* other cells hold a header keyword
HasDescriptionStructure(row) ==
    /\ NormalizedCell(row[1]) = <<"d", "e", "s", "c", "r", "i", "p", "c", "i", "ó", "n">>
    /\ Cardinality({i \in 2..Len(row) :
                       \E pat \in HeaderPatterns : Contains(NormalizedCell(row[i]), pat)}) >= 2

\* some cell of the row holds a plan-name literal
HasPlanLiteral(row) ==
    \E i \in 1..Len(row) : \E pat \in PlanPatterns : Contains(NormalizedCell(row[i]), pat)

\* C12: _is_header_row accepts a row exactly when its first cell is
\* "descripción" (lower-cased, trimmed) and at least two other cells hold a
\* header keyword, or when any cell of the row holds a plan-name literal.
C12_HeaderRowRule ==
    pc = "checked" =>
        (outcome <=> (HasDescriptionStructure(operand) \/ HasPlanLiteral(operand)))

-----------------------------------------------------------------------------
(* Column trimming on its own: a section of a header row and three data    *)
(* rows, none of them empty, arrives and _detect_table_boundaries trims it *)

MaxSectionCols == 3

SectionHeaderCells == {StrVal(<<"T", "a", "r", "i", "f", "a">>), StrVal(<<" ", " ">>), NaNVal}

SectionDataCells == {IntVal(FALSE, <<"7">>), NaNVal}

\* the rows of w cells drawn from pool that dropna(how='all') keeps
NonEmptyRows(pool, w) == {r \in [1..w -> pool] : \E j \in 1..w : NotNa(r[j])}

TableSections ==
    UNION {{<<h, d1, d2, d3>> :
               h \in NonEmptyRows(SectionHeaderCells, w),
               d1 \in NonEmptyRows(SectionDataCells, w),
               d2 \in NonEmptyRows(SectionDataCells, w),
               d3 \in NonEmptyRows(SectionDataCells, w)} : w \in 1..MaxSectionCols}

InitBoundaries ==
    /\ operand \in TableSections
    /\ outcome = Unused
    /\ pc = "ready"
    /\ PipelineUnused
    /\ ProcessUnused

\* df_section.iloc[:, :final_col + 1]
DetectTableBoundaries ==
    /\ pc = "ready"
    /\ outcome' = [r \in 1..Len(operand) |->
                      SubSeq(operand[r], 1, _detect_table_boundaries(operand))]
    /\ pc' = "trimmed"
    /\ UNCHANGED operand
    /\ UNCHANGED <<pipelineVars, processVars>>

NextBoundaries == DetectTableBoundaries

SpecBoundaries == InitBoundaries /\ [][NextBoundaries]_vars

\* C19: _detect_table_boundaries trims a section to the rightmost column
\* that holds a non-blank cell in the header row or in any data row: no
\* non-blank cell of the section lies outside the trimmed section.
C19_TrimmingKeepsData ==
    pc = "trimmed" =>
        \A r \in 1..Len(operand) : \A j \in 1..Len(operand[r]) :
            HasText(operand[r][j]) => j <= Len(outcome[r])

-----------------------------------------------------------------------------
(* Column naming on its own: a list of column names arrives and            *)
(* _make_columns_unique is applied to it                                   *)

MaxColumns == 4

ColumnNames ==
    {<<"x">>, <<"x", "_", "1">>, <<"x", "_", "2">>, <<"y">>}

ColumnLists == UNION {[1..k -> ColumnNames] : k \in 0..MaxColumns}

InitUnique ==
    /\ operand \in ColumnLists
    /\ outcome = Unused
    /\ pc = "ready"
    /\ PipelineUnused
    /\ ProcessUnused

MakeColumnsUnique ==
    /\ pc = "ready"
    /\ outcome' = _make_columns_unique(operand)
    /\ pc' = "unique"
    /\ UNCHANGED operand
    /\ UNCHANGED <<pipelineVars, processVars>>

NextUnique == MakeColumnsUnique

SpecUnique == InitUnique /\ [][NextUnique]_vars

\* name with a numeric suffix: name_k for some k >= 1
IsSuffixed(new, name) ==
    \E k \in 1..(MaxColumns + 1) : new = name \o <<"_">> \o NatStr(k)

NoDuplicates(q) == \A i, j \in 1..Len(q) : i # j => q[i] # q[j]

\* C20 as stated: _make_columns_unique returns a list of the same length
\* without duplicates in which the first occurrence of each name is
\* unchanged and each later occurrence gets a numeric suffix.
C20_FirstOccurrenceKept ==
    pc = "unique" =>
        /\ Len(outcome) = Len(operand)
        /\ NoDuplicates(outcome)
        /\ \A i \in 1..Len(operand) :
              IF \A j \in 1..(i - 1) : operand[j] # operand[i]
              THEN outcome[i] = operand[i]
              ELSE IsSuffixed(outcome[i], operand[i])

\* C20 amended: _make_columns_unique returns a list of the same length
\* without duplicates in which a name is unchanged when it differs from
\* every name given out before it (the earlier names as given out, suffixed
\* ones included), and gets a numeric suffix otherwise.
C20_UniqueColumns ==
    pc = "unique" =>
        /\ Len(outcome) = Len(operand)
        /\ NoDuplicates(outcome)
        /\ \A i \in 1..Len(operand) :
              IF \A j \in 1..(i - 1) : outcome[j] # operand[i]
              THEN outcome[i] = operand[i]
              ELSE IsSuffixed(outcome[i], operand[i])

\* a name met for the first time is renamed, because a suffixed name given
\* out earlier took it
C20_Witness ==
    /\ pc = "unique"
    /\ \E i \in 1..Len(operand) :
          /\ \A j \in 1..(i - 1) : operand[j] # operand[i]
          /\ \E j \in 1..(i - 1) : outcome[j] = operand[i]
          /\ IsSuffixed(outcome[i], operand[i])

-----------------------------------------------------------------------------
(* ACCOUNTS_CONFIG                                                         *)

\* plan_types, in declaration order
PlanTypes ==
    <<[col |-> <<"P", "L", "A", "N", " ", "G", " ", "-", " ", "Z", "E", "R", "O", " ", "P", "A", "R", "A", " ", "C", "U", "E", "N", "T", "A", " ", "M", "O", "V", "I", "L">>,
       key |-> <<"g", "_", "z", "e", "r", "o">>],
      [col |-> <<"P", "L", "A", "N", " ", "P", "L", "U", "S", " ", "P", "A", "R", "A", " ", "C", "U", "E", "N", "T", "A", " ", "M", "O", "V", "I", "L">>,
       key |-> <<"p", "u", "l", "s">>],
      [col |-> <<"P", "L", "A", "N", " ", "P", "R", "E", "M", "I", "E", "R", " ", "P", "A", "R", "A", " ", "C", "U", "E", "N", "T", "A", " ", "M", "Ó", "V", "I", "L">>,
       key |-> <<"p", "r", "e", "m", "i", "e", "r">>],
      [col |-> <<"V", "A", "L", "O", "R", " ", "(", "S", "i", "n", " ", "I", "V", "A", ")">>,
       key |-> <<"s", "t", "a", "n", "d", "a", "r", "d", "_", "r", "a", "t", "e">>]>>

MobilePlanKeys == {<<"g", "_", "z", "e", "r", "o">>, <<"p", "u", "l", "s">>, <<"p", "r", "e", "m", "i", "e", "r">>}

ValorSinIva == <<"V", "A", "L", "O", "R", " ", "(", "S", "i", "n", " ", "I", "V", "A", ")">>

DescriptionField == <<"D", "E", "S", "C", "R", "I", "P", "C", "I", "Ó", "N">>

\* table_classification without the two structural types, in declaration
\* order; transfers and withdrawals both carry a keyword list
TableClassification ==
    <<[type |-> "transfers",
       patterns |-> {<<"e", "n", "v", "i", "a", "r">>,
                     <<"t", "r", "a", "n", "s", "f", "e", "r", "e", "n", "c", "i", "a">>,
                     <<"a", "c", "h">>,
                     <<"t", "r", "a", "n", "s", "f", "i", "y", "a">>,
                     <<"l", "l", "a", "v", "e", "s">>},
       keywords |-> {<<"d", "i", "n", "e", "r", "o">>, <<"c", "u", "e", "n", "t", "a", "s">>, <<"b", "a", "n", "c", "o", "s">>}],
      [type |-> "withdrawals",
       patterns |-> {<<"r", "e", "t", "i", "r", "o">>,
                     <<"c", "a", "j", "e", "r", "o">>,
                     <<"o", "f", "i", "c", "i", "n", "a">>,
                     <<"c", "o", "r", "r", "e", "s", "p", "o", "n", "s", "a", "l">>},
       keywords |-> {<<"d", "e", "b", "i", "t", "o">>, <<"t", "a", "r", "j", "e", "t", "a">>, <<"m", "e", "d", "i", "o">>}]>>

FrequencyMapping ==
    <<[from |-> <<"M", "e", "n", "s", "u", "a", "l">>, to |-> <<"m", "o", "n", "t", "h", "l", "y">>],
      [from |-> <<"P", "o", "r", " ", "t", "r", "a", "n", "s", "a", "c", "c", "i", "ó", "n">>, to |-> <<"p", "e", "r", "_", "t", "r", "a", "n", "s", "a", "c", "t", "i", "o", "n">>],
      [from |-> <<"P", "o", "r", " ", "t", "r", "a", "n", "s", "a", "c", "c", "i", "o", "n">>, to |-> <<"p", "e", "r", "_", "t", "r", "a", "n", "s", "a", "c", "t", "i", "o", "n">>],
      [from |-> <<"U", "n", "i", "c", "a", " ", "v", "e", "z">>, to |-> <<"o", "n", "e", "_", "t", "i", "m", "e">>],
      [from |-> <<"U", "n", "i", "c", "a", " ", "V", "e", "z">>, to |-> <<"o", "n", "e", "_", "t", "i", "m", "e">>],
      [from |-> <<"A", " ", "d", "e", "m", "a", "n", "d", "a">>, to |-> <<"o", "n", "_", "d", "e", "m", "a", "n", "d">>],
      [from |-> <<"A", "n", "u", "a", "l">>, to |-> <<"y", "e", "a", "r", "l", "y">>]>>

TaxMapping ==
    <<[from |-> <<"S", "i">>, to |-> TRUE],
      [from |-> <<"N", "o">>, to |-> FALSE],
      [from |-> <<"N", "o", " ", "A", "p", "l", "i", "c", "a">>, to |-> FALSE],
      [from |-> <<"N", "o", " ", "a", "p", "l", "i", "c", "a">>, to |-> FALSE]>>

\* service_id_patterns, in declaration order
ServiceIdPatterns ==
    <<[pattern |-> <<"a", "p", "p">>, id |-> <<"a", "p", "p", "_", "o", "p", "e", "n", "i", "n", "g">>],
      [pattern |-> <<"d", "e", "b", "i", "t", "o", " ", "d", "i", "g", "i", "t", "a", "l">>, id |-> <<"d", "i", "g", "i", "t", "a", "l", "_", "d", "e", "b", "i", "t", "_", "c", "a", "r", "d">>],
      [pattern |-> <<"r", "e", "t", "i", "r", "o">>, id |-> <<"w", "i", "t", "h", "d", "r", "a", "w", "a", "l">>],
      [pattern |-> <<"t", "a", "l", "o", "n", "a", "r", "i", "o">>, id |-> <<"c", "h", "e", "c", "k", "b", "o", "o", "k">>],
      [pattern |-> <<"c", "h", "e", "q", "u", "e">>, id |-> <<"c", "a", "s", "h", "i", "e", "r", "_", "c", "h", "e", "c", "k">>],
      [pattern |-> <<"t", "r", "a", "n", "s", "f", "e", "r", "e", "n", "c", "i", "a">>, id |-> <<"t", "r", "a", "n", "s", "f", "e", "r">>],
      [pattern |-> <<"a", "c", "h">>, id |-> <<"a", "c", "h", "_", "t", "r", "a", "n", "s", "f", "e", "r">>],
      [pattern |-> <<"t", "r", "a", "n", "s", "f", "i", "y", "a">>, id |-> <<"t", "r", "a", "n", "s", "f", "i", "y", "a", "_", "t", "r", "a", "n", "s", "f", "e", "r">>],
      [pattern |-> <<"l", "l", "a", "v", "e", "s">>, id |-> <<"k", "e", "y", "s", "_", "t", "r", "a", "n", "s", "f", "e", "r">>],
      [pattern |-> <<"c", "a", "j", "e", "r", "o">>, id |-> <<"a", "t", "m">>],
      [pattern |-> <<"c", "o", "r", "r", "e", "s", "p", "o", "n", "s", "a", "l">>, id |-> <<"c", "o", "r", "r", "e", "s", "p", "o", "n", "d", "e", "n", "t">>],
      [pattern |-> <<"o", "f", "i", "c", "i", "n", "a">>, id |-> <<"b", "r", "a", "n", "c", "h">>]>>

-----------------------------------------------------------------------------
(* AccountsBusinessRules: classification and normalisation                 *)

\* bool(v)
Truthy(v) ==
    CASE v.kind = "str" -> v.s # <<>>
      [] v.kind = "num" -> v.int # <<>> \/ v.frac # <<>>
      [] v.kind = "bool" -> v.b
      [] v.kind = "nan" -> TRUE
      [] v.kind = "none" -> FALSE

\* row.get(key) on a row dict (a function from column names to cells)
RowGet(row, key) == IF key \in DOMAIN row THEN row[key] ELSE NoneVal

\* plan_types.get(col, col) for a header cell
PlanColumn(colv) ==
    IF colv.kind = "str" /\ \E i \in 1..Len(PlanTypes) : PlanTypes[i].col = colv.s
    THEN StrVal(PlanTypes[CHOOSE i \in 1..Len(PlanTypes) : PlanTypes[i].col = colv.s].key)
    ELSE colv

\* the rows among the first three whose DESCRIPCIÓN cell is truthy
SampleRows(data) ==
    LET first3 == SubSeq(data, 1, MinOf2(3, Len(data)))
    IN  SeqFilter(first3, {r \in 1..Len(first3) : Truthy(RowGet(first3[r], DescriptionField))})

\* the first classification entry whose patterns and keywords match the text
RECURSIVE FirstKeywordMatch(_, _)
FirstKeywordMatch(text_to_check, i) ==
    IF i > Len(TableClassification) THEN "unknown"
    ELSE IF /\ \E pat \in TableClassification[i].patterns : Contains(text_to_check, pat)
            /\ \E kw \in TableClassification[i].keywords : Contains(text_to_check, kw)
    THEN TableClassification[i].type
    ELSE FirstKeywordMatch(text_to_check, i + 1)

\* the keyword scan of classify_table_type (lines 52-77)
ClassifyByKeywords(tbl) ==
    LET table_name == Lower(tbl.table_name)
        sample == SampleRows(tbl.data)
        sample_descriptions ==
            [r \in 1..Len(sample) |-> Lower(sample[r][DescriptionField].s)]
    IN  IF \E r \in 1..Len(sample) : sample[r][DescriptionField].kind # "str"
        THEN Raise("AttributeError")
        ELSE Return(FirstKeywordMatch(table_name \o <<" ">> \o JoinSpace(sample_descriptions), 1))

\* classify_table_type with the keyword scan ahead of the structural checks
classify_table_type_KeywordsFirst(tbl) ==
    LET column_names == [j \in 1..Len(tbl.header_row) |-> tbl.header_row[j].value]
        plan_columns == {PlanColumn(column_names[j]) : j \in 1..Len(column_names)}
        scan == ClassifyByKeywords(tbl)
    IN  IF scan.tag = "raise" \/ scan.value # "unknown" THEN scan
        ELSE IF \A plan \in MobilePlanKeys : StrVal(plan) \in plan_columns
        THEN Return("mobile_plans")
        ELSE IF StrVal(ValorSinIva) \in Range(column_names)
        THEN Return("traditional_services")
        ELSE Return("unknown")

classify_table_type(tbl) ==
    LET column_names == [j \in 1..Len(tbl.header_row) |-> tbl.header_row[j].value]
        plan_columns == {PlanColumn(column_names[j]) : j \in 1..Len(column_names)}
    IN  IF \A plan \in MobilePlanKeys : StrVal(plan) \in plan_columns
        THEN Return("mobile_plans")
        ELSE IF StrVal(ValorSinIva) \in Range(column_names)
        THEN Return("traditional_services")
        ELSE ClassifyByKeywords(tbl)

\* what \w matches
IsWordChar(c) == IsAlnum(c) \/ c = "_"

\* end (exclusive) of the run of word characters that starts at i
RECURSIVE WordRunEnd(_, _)
WordRunEnd(s, i) ==
    IF i <= Len(s) /\ IsWordChar(s[i]) THEN WordRunEnd(s, i + 1) ELSE i

\* re.findall(r'\b\w+\b', s) from position i on, at most n words
RECURSIVE FindWords(_, _, _)
FindWords(s, i, n) ==
    IF i > Len(s) \/ n = 0 THEN <<>>
    ELSE IF IsWordChar(s[i])
    THEN <<SubSeq(s, i, WordRunEnd(s, i) - 1)>> \o FindWords(s, WordRunEnd(s, i), n - 1)
    ELSE FindWords(s, i + 1, n)

\* '_'.join(parts)
RECURSIVE JoinUnderscore(_)
JoinUnderscore(parts) ==
    IF parts = <<>> THEN <<>>
    ELSE IF Len(parts) = 1 THEN parts[1]
    ELSE parts[1] \o <<"_">> \o JoinUnderscore(Tail(parts))

generate_service_id(description) ==
    LET desc_lower == Lower(description)
        hits == {i \in 1..Len(ServiceIdPatterns) :
                    Contains(desc_lower, ServiceIdPatterns[i].pattern)}
        words == FindWords(desc_lower, 1, 3)
        meaningful_words == SeqFilter(words, {i \in 1..Len(words) : Len(words[i]) > 2})
    IN  IF hits # {}
        THEN ServiceIdPatterns[CHOOSE i \in hits : \A j \in hits : i <= j].id
        ELSE IF meaningful_words # <<>>
        THEN JoinUnderscore(SubSeq(meaningful_words, 1, MinOf2(2, Len(meaningful_words))))
        ELSE <<"u", "n", "k", "n", "o", "w", "n", "_", "s", "e", "r", "v", "i", "c", "e">>

normalize_frequency(frequency) ==
    IF ~Truthy(frequency) THEN <<"u", "n", "k", "n", "o", "w", "n">>
    ELSE LET cleaned_frequency ==
                 IF frequency.kind = "str" THEN Strip(frequency.s) ELSE PyStr(frequency)
         IN  IF \E i \in 1..Len(FrequencyMapping) : FrequencyMapping[i].from = cleaned_frequency
             THEN FrequencyMapping[CHOOSE i \in 1..Len(FrequencyMapping) :
                                     FrequencyMapping[i].from = cleaned_frequency].to
             ELSE Lower(cleaned_frequency)

normalize_tax_application(tax_value) ==
    IF ~Truthy(tax_value) THEN FALSE
    ELSE IF tax_value.kind = "str"
            /\ \E i \in 1..Len(TaxMapping) : TaxMapping[i].from = tax_value.s
    THEN TaxMapping[CHOOSE i \in 1..Len(TaxMapping) : TaxMapping[i].from = tax_value.s].to
    ELSE FALSE

-----------------------------------------------------------------------------
(* Classification of extracted tables                                      *)

ClassifyBodyRows == 3

ClassifySheetNames == {<<"T", "A", "R", "I", "F", "A", "S">>, <<"R", "e", "t", "i", "r", "o", " ", "t", "a", "r", "j", "e", "t", "a">>}

\* header cells that may follow the description column, in sheet order
ClassifyHeaderCells ==
    <<StrVal(<<"P", "L", "A", "N", " ", "G", " ", "-", " ", "Z", "E", "R", "O", " ", "P", "A", "R", "A", " ", "C", "U", "E", "N", "T", "A", " ", "M", "O", "V", "I", "L">>),
      StrVal(<<"P", "L", "A", "N", " ", "P", "L", "U", "S", " ", "P", "A", "R", "A", " ", "C", "U", "E", "N", "T", "A", " ", "M", "O", "V", "I", "L">>),
      StrVal(<<"P", "L", "A", "N", " ", "P", "R", "E", "M", "I", "E", "R", " ", "P", "A", "R", "A", " ", "C", "U", "E", "N", "T", "A", " ", "M", "Ó", "V", "I", "L">>),
      StrVal(<<"V", "A", "L", "O", "R", " ", "(", "S", "i", "n", " ", "I", "V", "A", ")">>),
      StrVal(<<"F", "r", "e", "c", "u", "e", "n", "c", "i", "a">>)>>

ClassifyFirstCells == {StrVal(<<"D", "e", "s", "c", "r", "i", "p", "c", "i", "ó", "n">>), StrVal(<<"D", "E", "S", "C", "R", "I", "P", "C", "I", "Ó", "N">>)}

ClassifyHeaders ==
    {<<first>> \o SeqFilter(ClassifyHeaderCells, keep) :
        first \in ClassifyFirstCells, keep \in SUBSET (1..Len(ClassifyHeaderCells))}

ClassifyDescriptions ==
    {StrVal(<<"R", "e", "t", "i", "r", "o", " ", "c", "a", "j", "e", "r", "o", " ", "c", "o", "n", " ", "t", "a", "r", "j", "e", "t", "a">>),
     StrVal(<<"T", "r", "a", "n", "s", "f", "e", "r", "e", "n", "c", "i", "a", " ", "d", "e", " ", "d", "i", "n", "e", "r", "o">>),
     StrVal(<<"A", "p", "e", "r", "t", "u", "r", "a">>),
     NaNVal}

\* a data row as wide as the header hdr
ClassifyRow(hdr, desc) ==
    [j \in 1..Len(hdr) |-> IF j = 1 THEN desc ELSE IntVal(FALSE, <<"7">>)]

ClassifySheets ==
    {<<[j \in 1..Len(hdr) |-> IF j = 1 THEN StrVal(<<"T", "a", "r", "i", "f", "a", "s", " ", "2", "0", "2", "4">>) ELSE NaNVal], hdr,
       ClassifyRow(hdr, d1), ClassifyRow(hdr, d2)>>
       \o [r \in 1..(ClassifyBodyRows - 2) |-> ClassifyRow(hdr, StrVal(<<"A", "p", "e", "r", "t", "u", "r", "a">>))] :
        hdr \in ClassifyHeaders, d1 \in ClassifyDescriptions, d2 \in ClassifyDescriptions}

\* the tables the parser extracts from these sheets
ClassifyTables ==
    UNION {Range(find_tables_in_sheet(sh, name)) :
              sh \in ClassifySheets, name \in ClassifySheetNames}

InitClassify ==
    /\ table \in ClassifyTables
    /\ pc = "ready"
    /\ ttype = Unused
    /\ cell = Unused /\ rate = Unused /\ num = Unused /\ shape = Unused
    /\ sheet = Unused /\ tables = Unused
    /\ transformed = Unused /\ vdata = Unused /\ report = Unused
    /\ DomainUnused

ClassifyTable ==
    /\ pc = "ready"
    /\ ttype' = classify_table_type(table)
    /\ pc' = "classified"
    /\ UNCHANGED domainVars
    /\ UNCHANGED <<cell, rate, num, sheet, tables, table, transformed, vdata,
                   report, shape>>

NextClassify == ClassifyTable

SpecClassify == InitClassify /\ [][NextClassify]_vars

\* the texts of the table's header cells
HeaderTexts ==
    {table.header_row[j].value.s :
        j \in {k \in 1..Len(table.header_row) : table.header_row[k].value.kind = "str"}}

HasAllPlanHeaders ==
    {PlanTypes[1].col, PlanTypes[2].col, PlanTypes[3].col} \subseteq HeaderTexts

\* C7: a table whose headers map to all three plan keys is classified
\* mobile_plans whatever its name and descriptions say; failing that, a table
\* with a 'VALOR (Sin IVA)' header is classified traditional_services; the
\* keyword scan only decides when neither structural test applies.
C7_StructuralClassificationFirst ==
    pc = "classified" =>
        /\ HasAllPlanHeaders => ttype = Return("mobile_plans")
        /\ (~HasAllPlanHeaders /\ ValorSinIva \in HeaderTexts)
              => ttype = Return("traditional_services")

\* a three-plan table whose name and descriptions match the withdrawals
\* keywords is still classified mobile_plans
C7_Witness ==
    /\ pc = "classified"
    /\ HasAllPlanHeaders
    /\ ClassifyByKeywords(table) = Return("withdrawals")
    /\ ttype = Return("mobile_plans")

-----------------------------------------------------------------------------
(* ETLPipeline: transformation                                             *)
(* A dict whose iteration order matters is a sequence of [key, value]      *)
(* entries in insertion order. A service record is a record whose text     *)
(* fields hold character sequences. The clock fields (last_updated,        *)
(* timestamp) are left out.                                                *)

DescripcionKey == <<"D", "e", "s", "c", "r", "i", "p", "c", "i", "ó", "n">>
AplicaIvaKey == <<"A", "p", "l", "i", "c", "a", " ", "I", "v", "a">>
FrecuenciaKey == <<"F", "r", "e", "c", "u", "e", "n", "c", "i", "a">>
ValorSinIvaKey == <<"V", "a", "l", "o", "r", " ", "s", "i", "n", " ", "i", "v", "a">>
DisclaimerKey == <<"D", "i", "s", "c", "l", "a", "i", "m", "e", "r">>

\* the fields every service record starts with
ServiceBase(row, description) ==
    [service_id |-> generate_service_id(description),
     description |-> description,
     applies_tax |-> normalize_tax_application(RowGet(row, AplicaIvaKey)),
     frequency |-> normalize_frequency(RowGet(row, FrecuenciaKey))]

\* parse_rate_value of each plan column the row has, by position in plan_types
ParsedPlanRates(row) ==
    [i \in {k \in 1..Len(PlanTypes) : PlanTypes[k].col \in DOMAIN row} |->
        parse_rate_value(row[PlanTypes[i].col])]

\* the service with its "rates" dict, or the first exception of the parses
WithRates(service, parsed) ==
    IF \E i \in DOMAIN parsed : parsed[i].tag = "raise"
    THEN parsed[MinOfSet({i \in DOMAIN parsed : parsed[i].tag = "raise"})]
    ELSE Return(service @@
                  [rates |-> [k \in {PlanTypes[i].key : i \in DOMAIN parsed} |->
                                parsed[CHOOSE i \in DOMAIN parsed :
                                          PlanTypes[i].key = k].value]])

\* the service with its single "rate", or the exception of the parse
WithRate(service, single) ==
    IF single.tag = "raise" THEN single
    ELSE Return(service @@ [rate |-> single.value])

\* the disclaimer is added when it is a non-blank string
WithDisclaimer(result, disclaimer) ==
    IF result.tag = "raise" THEN result
    ELSE IF disclaimer.kind = "str" /\ Strip(disclaimer.s) # <<>>
    THEN Return(result.value @@ [disclaimer |-> Strip(disclaimer.s)])
    ELSE result

_create_service_record(row, description, rate_type) ==
    WithDisclaimer(
        IF rate_type = "rates"
        THEN WithRates(ServiceBase(row, description), ParsedPlanRates(row))
        ELSE WithRate(ServiceBase(row, description),
                      parse_rate_value(RowGet(row, ValorSinIvaKey))),
        RowGet(row, DisclaimerKey))

_create_table_result(tbl, table_type, svcs) ==
    [table_type |-> table_type,
     table_name |-> tbl.table_name,
     source_position |-> [sheet |-> tbl.sheet_name,
                          start_row |-> tbl.start_row,
                          end_row |-> tbl.end_row],
     services |-> svcs]

RECURSIVE TransformRows(_, _, _, _, _)
\* the service made of row i is appended and the loop goes on, unless
\* making it raised
AppendService(data, table_type, rate_type, i, svcs, service) ==
    IF service.tag = "raise" THEN service
    ELSE TransformRows(data, table_type, rate_type, i + 1,
                       Append(svcs, service.value @@ [category |-> table_type]))

\* one round of the row loop, cellv being row.get('Descripción', '')
TransformRow(data, table_type, rate_type, i, svcs, cellv) ==
    IF cellv.kind # "str" THEN Raise("AttributeError")
    ELSE IF Strip(cellv.s) = <<>>
    THEN TransformRows(data, table_type, rate_type, i + 1, svcs)
    ELSE AppendService(data, table_type, rate_type, i, svcs,
                       _create_service_record(data[i], Strip(cellv.s), rate_type))

\* the row loop of _transform_standard_plans / _transform_traditional_services
\* from row i on, svcs being the services appended so far
TransformRows(data, table_type, rate_type, i, svcs) ==
    IF i > Len(data) THEN Return(svcs)
    ELSE TransformRow(data, table_type, rate_type, i, svcs,
                      IF DescripcionKey \in DOMAIN data[i]
                      THEN data[i][DescripcionKey] ELSE StrVal(<<>>))

\* the table result of the services, unless the row loop raised
TableResultOf(tbl, table_type, svcs) ==
    IF svcs.tag = "raise" THEN svcs
    ELSE Return(_create_table_result(tbl, table_type, svcs.value))

_transform_standard_plans(tbl, table_type) ==
    TableResultOf(tbl, table_type, TransformRows(tbl.data, table_type, "rates", 1, <<>>))

_transform_traditional_services(tbl, table_type) ==
    TableResultOf(tbl, table_type, TransformRows(tbl.data, table_type, "rate", 1, <<>>))

_transform_mobile_plans(tbl, table_type) == _transform_standard_plans(tbl, table_type)

_transform_table_by_type(tbl, table_type) ==
    CASE table_type = "mobile_plans" -> _transform_mobile_plans(tbl, table_type)
      [] table_type \in {"transfers", "withdrawals"} ->
            _transform_standard_plans(tbl, table_type)
      [] table_type = "traditional_services" ->
            _transform_traditional_services(tbl, table_type)

\* the "tables" dict after merging one table's result into it
_merge_table_results(table_type, transformed_table, tabs) ==
    IF \A i \in 1..Len(tabs) : tabs[i].key # table_type
    THEN Append(tabs, [key |-> table_type, value |-> transformed_table])
    ELSE [i \in 1..Len(tabs) |->
            IF tabs[i].key = table_type
            THEN [key |-> table_type,
                  value |-> [tabs[i].value EXCEPT
                               !.services = @ \o transformed_table.services]]
            ELSE tabs[i]]

RECURSIVE TransformTables(_, _, _)
\* the transformed table is merged and the loop goes on, unless the
\* transformation raised
MergeAndContinue(tbls, i, tabs, table_type, transformed_table) ==
    IF transformed_table.tag = "raise" THEN transformed_table
    ELSE TransformTables(tbls, i + 1,
             _merge_table_results(table_type, transformed_table.value, tabs))

\* one round of the table loop, table_type being the classification of table i
TransformTable(tbls, i, tabs, table_type) ==
    IF table_type.tag = "raise" THEN table_type
    ELSE IF table_type.value = "unknown" THEN TransformTables(tbls, i + 1, tabs)
    ELSE MergeAndContinue(tbls, i, tabs, table_type.value,
                          _transform_table_by_type(tbls[i], table_type.value))

\* the table loop of _transform_data over the tables of all sheets in order
TransformTables(tbls, i, tabs) ==
    IF i > Len(tbls) THEN Return(tabs)
    ELSE TransformTable(tbls, i, tabs, classify_table_type(tbls[i]))

RECURSIVE FlattenTables(_)
FlattenTables(raw_data) ==
    IF raw_data = <<>> THEN <<>>
    ELSE raw_data[1].value \o FlattenTables(Tail(raw_data))

\* the transformed document, unless the table loop raised
TransformedDocument(raw_data, tabs) ==
    IF tabs.tag = "raise" THEN tabs
    ELSE Return([business_line |-> "accounts",
                 document_type |-> "rates_and_fees",
                 source_sheets |-> [i \in 1..Len(raw_data) |-> raw_data[i].key],
                 tables |-> tabs.value])

_transform_data(raw_data) ==
    TransformedDocument(raw_data, TransformTables(FlattenTables(raw_data), 1, <<>>))

-----------------------------------------------------------------------------
(* Validation: VALIDATION_RULES, ETLPipeline._validate_data and Validator  *)

RequiredFields == <<"service_id", "description", "frequency">>

MaxDescriptionLength == 200

ValidFrequencies ==
    {<<"m", "o", "n", "t", "h", "l", "y">>,
     <<"p", "e", "r", "_", "t", "r", "a", "n", "s", "a", "c", "t", "i", "o", "n">>,
     <<"o", "n", "e", "_", "t", "i", "m", "e">>,
     <<"y", "e", "a", "r", "l", "y">>,
     <<"u", "n", "k", "n", "o", "w", "n">>}

ValidTableTypes == {"mobile_plans", "transfers", "withdrawals", "traditional_services"}

\* service.get("service_id", default) as a value
ServiceIdOr(service, default) ==
    IF "service_id" \in DOMAIN service THEN StrVal(service.service_id) ELSE default

\* ETLPipeline._validate_service
ETL_validate_service(service, index) ==
    LET service_id == ServiceIdOr(service, StrVal(<<"s", "e", "r", "v", "i", "c", "e", "_">> \o NatStr(index)))
        missing == SeqFilter(RequiredFields,
                             {k \in 1..Len(RequiredFields) :
                                 RequiredFields[k] \notin DOMAIN service})
    IN  [k \in 1..Len(missing) |->
            [type |-> "missing_required_field", service_id |-> service_id,
             field |-> missing[k]]]
        \o (IF "rates" \notin DOMAIN service /\ "rate" \notin DOMAIN service
            THEN <<[type |-> "missing_rate", service_id |-> service_id]>> ELSE <<>>)
        \o (IF /\ "frequency" \in DOMAIN service
               /\ service.frequency # <<>>
               /\ service.frequency \notin ValidFrequencies
            THEN <<[type |-> "invalid_frequency", service_id |-> service_id]>> ELSE <<>>)
        \o (IF /\ "description" \in DOMAIN service
               /\ Len(service.description) > MaxDescriptionLength
            THEN <<[type |-> "description_too_long", service_id |-> service_id]>> ELSE <<>>)

\* the errors of the services of one table, from service i on
RECURSIVE ETL_ServiceErrors(_, _)
ETL_ServiceErrors(svcs, i) ==
    IF i > Len(svcs) THEN <<>>
    ELSE ETL_validate_service(svcs[i], i - 1) \o ETL_ServiceErrors(svcs, i + 1)

RECURSIVE ETL_TableErrors(_)
ETL_TableErrors(tabs) ==
    IF tabs = <<>> THEN <<>>
    ELSE ETL_ServiceErrors(tabs[1].value.services, 1) \o ETL_TableErrors(Tail(tabs))

RECURSIVE TotalServices(_)
TotalServices(tabs) ==
    IF tabs = <<>> THEN 0
    ELSE Len(tabs[1].value.services) + TotalServices(Tail(tabs))

UnknownTypeWarnings(tabs) ==
    LET unknown == SeqFilter(tabs, {i \in 1..Len(tabs) : tabs[i].key \notin ValidTableTypes})
    IN  [i \in 1..Len(unknown) |->
            [type |-> "invalid_table_type", table_type |-> unknown[i].key]]

NoStats == [k \in {} |-> 0]

_validate_data(transformed_data) ==
    IF "tables" \notin DOMAIN transformed_data
    THEN [status |-> "failed",
          errors |-> <<[type |-> "missing_tables"]>>,
          warnings |-> <<>>,
          stats |-> NoStats]
    ELSE LET tabs == transformed_data.tables
             errors == ETL_TableErrors(tabs)
             warnings == UnknownTypeWarnings(tabs)
         IN  [status |-> IF errors # <<>> THEN "failed"
                         ELSE IF warnings # <<>> THEN "passed_with_warnings"
                         ELSE "passed",
              errors |-> errors,
              warnings |-> warnings,
              stats |-> [total_tables |-> Len(tabs),
                         total_services |-> TotalServices(tabs),
                         error_count |-> Len(errors),
                         warning_count |-> Len(warnings)]]

\* Validator._validate_service: the errors and warnings one service adds
Validator_validate_service(service) ==
    LET absent == SeqFilter(RequiredFields,
                            {k \in 1..Len(RequiredFields) :
                                \/ RequiredFields[k] \notin DOMAIN service
                                \/ service[RequiredFields[k]] = <<>>})
        frequency == IF "frequency" \in DOMAIN service
                     THEN StrVal(service.frequency) ELSE NoneVal
    IN  [errors |->
            [k \in 1..Len(absent) |->
                [type |-> "missing_required_field",
                 service_id |-> ServiceIdOr(service, StrVal(<<"N", "/", "A">>)),
                 field |-> absent[k]]]
            \o (IF frequency.kind = "str" /\ frequency.s \in ValidFrequencies THEN <<>>
                ELSE <<[type |-> "invalid_frequency",
                        service_id |-> ServiceIdOr(service, NoneVal),
                        frequency |-> frequency]>>),
         warnings |->
            IF /\ "description" \in DOMAIN service
               /\ Len(service.description) > MaxDescriptionLength
            THEN <<[type |-> "description_too_long",
                    service_id |-> ServiceIdOr(service, NoneVal),
                    length |-> Len(service.description),
                    max_length |-> MaxDescriptionLength]>>
            ELSE <<>>]

\* the issue lists after the services from i on are validated
RECURSIVE ValidateServices(_, _, _)
ValidateServices(svcs, i, issues) ==
    IF i > Len(svcs) THEN issues
    ELSE LET one == Validator_validate_service(svcs[i])
         IN  ValidateServices(svcs, i + 1,
                 [errors |-> issues.errors \o one.errors,
                  warnings |-> issues.warnings \o one.warnings])

\* Validator._validate_table
_validate_table(table_type, table_data, issues) ==
    ValidateServices(table_data.services, 1,
        [errors |-> issues.errors,
         warnings |-> issues.warnings \o
             (IF table_type \notin ValidTableTypes
              THEN <<[type |-> "invalid_table_type", table_type |-> table_type]>>
              ELSE <<>>)])

RECURSIVE ValidateTables(_, _)
ValidateTables(tabs, issues) ==
    IF tabs = <<>> THEN issues
    ELSE ValidateTables(Tail(tabs), _validate_table(tabs[1].key, tabs[1].value, issues))

\* _generate_report testing the warnings ahead of the errors
_generate_report_WarningsFirst(errors, warnings) ==
    [status |-> IF warnings # <<>> THEN "passed_with_warnings"
                ELSE IF errors # <<>> THEN "failed"
                ELSE "passed",
     summary |-> [total_errors |-> Len(errors), total_warnings |-> Len(warnings)],
     errors |-> errors,
     warnings |-> warnings]

_generate_report(errors, warnings) ==
    [status |-> IF errors # <<>> THEN "failed"
                ELSE IF warnings # <<>> THEN "passed_with_warnings"
                ELSE "passed",
     summary |-> [total_errors |-> Len(errors), total_warnings |-> Len(warnings)],
     errors |-> errors,
     warnings |-> warnings]

\* a document handed to a validator: None or a dict
NoneDoc == [kind |-> "none"]
DictDoc(d) == [kind |-> "dict", d |-> d]

\* Validator.validate
validate(data) ==
    IF data.kind = "none" \/ DOMAIN data.d = {} \/ "tables" \notin DOMAIN data.d
    THEN _generate_report(<<[type |-> "critical"]>>, <<>>)
    ELSE LET issues == ValidateTables(data.d.tables, [errors |-> <<>>, warnings |-> <<>>])
         IN  _generate_report(issues.errors, issues.warnings)

-----------------------------------------------------------------------------
(* The pipeline as a state machine: process_file extracts the tables of    *)
(* the workbook's sheet, transforms them and validates the result          *)

MaxPipelineRows == 4

\* the header row of the end-to-end scenario
ScenarioHeader ==
    <<StrVal(<<"D", "e", "s", "c", "r", "i", "p", "c", "i", "ó", "n">>),
      StrVal(<<"T", "a", "r", "i", "f", "a", " ", "P", "l", "a", "n", " ", "G", "-", "Z", "e", "r", "o", ".", ".", ".">>),
      StrVal(<<"T", "a", "r", "i", "f", "a", " ", "P", "l", "a", "n", " ", "P", "u", "l", "s", ".", ".", ".">>),
      StrVal(<<"T", "a", "r", "i", "f", "a", " ", "P", "l", "a", "n", " ", "P", "r", "e", "m", "i", "e", "r", ".", ".", ".">>),
      StrVal(<<"A", "p", "l", "i", "c", "a", " ", "I", "v", "a">>),
      StrVal(<<"F", "r", "e", "c", "u", "e", "n", "c", "i", "a">>)>>

\* a header row that names the plan columns as plan_types does
ConfigHeader ==
    <<StrVal(<<"D", "e", "s", "c", "r", "i", "p", "c", "i", "ó", "n">>),
      StrVal(<<"P", "L", "A", "N", " ", "G", " ", "-", " ", "Z", "E", "R", "O", " ", "P", "A", "R", "A", " ", "C", "U", "E", "N", "T", "A", " ", "M", "O", "V", "I", "L">>),
      StrVal(<<"P", "L", "A", "N", " ", "P", "L", "U", "S", " ", "P", "A", "R", "A", " ", "C", "U", "E", "N", "T", "A", " ", "M", "O", "V", "I", "L">>),
      StrVal(<<"P", "L", "A", "N", " ", "P", "R", "E", "M", "I", "E", "R", " ", "P", "A", "R", "A", " ", "C", "U", "E", "N", "T", "A", " ", "M", "Ó", "V", "I", "L">>),
      StrVal(<<"A", "p", "l", "i", "c", "a", " ", "I", "v", "a">>),
      StrVal(<<"F", "r", "e", "c", "u", "e", "n", "c", "i", "a">>)>>

TitleRow ==
    <<StrVal(<<"T", "a", "r", "i", "f", "a", "s", " ", "2", "0", "2", "4">>),
      NaNVal,
      NaNVal,
      NaNVal,
      NaNVal,
      NaNVal>>

AperturaRow ==
    <<StrVal(<<"A", "p", "e", "r", "t", "u", "r", "a">>),
      IntVal(FALSE, <<"0">>),
      IntVal(FALSE, <<"5", "0", "0", "0">>),
      IntVal(FALSE, <<"7", "0", "0", "0">>),
      StrVal(<<"S", "i">>),
      StrVal(<<"M", "e", "n", "s", "u", "a", "l">>)>>

RetiroRow ==
    <<StrVal(<<"R", "e", "t", "i", "r", "o", " ", "e", "n", " ", "c", "a", "j", "e", "r", "o">>),
      IntVal(FALSE, <<"7">>),
      StrVal(<<"N", "o", " ", "a", "p", "l", "i", "c", "a">>),
      StrVal(<<"I", "l", "i", "m", "i", "t", "a", "d", "o">>),
      StrVal(<<"N", "o">>),
      StrVal(<<"A", " ", "d", "e", "m", "a", "n", "d", "a">>)>>

\* a row without a description
NoDescriptionRow ==
    <<NaNVal,
      IntVal(FALSE, <<"7">>),
      IntVal(FALSE, <<"7">>),
      IntVal(FALSE, <<"7">>),
      StrVal(<<"S", "i">>),
      StrVal(<<"M", "e", "n", "s", "u", "a", "l">>)>>

\* a row with a rate cell that float() rejects
BadRateRow ==
    <<StrVal(<<"T", "r", "a", "n", "s", "f", "e", "r", "e", "n", "c", "i", "a", " ", "A", "C", "H">>),
      StrVal(<<"7", ".", "7", ".", "7">>),
      IntVal(FALSE, <<"7">>),
      IntVal(FALSE, <<"7">>),
      StrVal(<<"N", "o">>),
      StrVal(<<"M", "e", "n", "s", "u", "a", "l">>)>>

PipelineFirstRows == {TitleRow, ScenarioHeader, ConfigHeader}

PipelineBodyRows == {ConfigHeader, AperturaRow, RetiroRow, NoDescriptionRow, BadRateRow}

PipelineSheets ==
    {<<first>> \o body :
        first \in PipelineFirstRows,
        body \in UNION {[1..k -> PipelineBodyRows] : k \in 0..MaxPipelineRows}}

InitPipeline ==
    /\ sheet \in PipelineSheets
    /\ pc = "ready"
    /\ tables = Unused /\ transformed = Unused /\ report = Unused
    /\ DomainUnused
    /\ cell = Unused /\ rate = Unused /\ num = Unused /\ shape = Unused
    /\ table = Unused /\ ttype = Unused /\ vdata = Unused

\* _extract_tables: extract_all_tables over the workbook's only sheet
ExtractTables ==
    /\ pc = "ready"
    /\ tables' = <<[key |-> SheetName, value |-> find_tables_in_sheet(sheet, SheetName)]>>
    /\ pc' = "tables_extracted"
    /\ UNCHANGED domainVars
    /\ UNCHANGED <<cell, rate, num, sheet, table, ttype, transformed, vdata,
                   report, shape>>

\* _transform_data; an exception it raises leaves process_file
TransformData ==
    /\ pc = "tables_extracted"
    /\ transformed' = _transform_data(tables)
    /\ pc' = IF transformed'.tag = "raise" THEN "aborted" ELSE "transformed"
    /\ UNCHANGED domainVars
    /\ UNCHANGED <<cell, rate, num, sheet, tables, table, ttype, vdata,
                   report, shape>>

ValidateData ==
    /\ pc = "transformed"
    /\ report' = _validate_data(transformed.value)
    /\ pc' = "validated"
    /\ UNCHANGED domainVars
    /\ UNCHANGED <<cell, rate, num, sheet, tables, table, ttype, transformed,
                   vdata, shape>>

NextPipeline == ExtractTables \/ TransformData \/ ValidateData

SpecPipeline == InitPipeline /\ [][NextPipeline]_vars

\* the services of the mobile_plans table of the transformed document
MobilePlanServices ==
    IF pc \notin {"transformed", "validated"} THEN {}
    ELSE UNION {Range(transformed.value.tables[i].value.services) :
                   i \in {k \in 1..Len(transformed.value.tables) :
                             transformed.value.tables[k].key = "mobile_plans"}}

\* the sheet of the end-to-end scenario: the scenario header as first row,
\* then four data rows with a description and parsable rates, Apertura among them
IsScenarioSheet ==
    /\ Len(sheet) = 5
    /\ sheet[1] = ScenarioHeader
    /\ \A r \in 2..5 : sheet[r] \in {AperturaRow, RetiroRow}
    /\ \E r \in 2..5 : sheet[r] = AperturaRow

IsAperturaService(service) ==
    /\ service.description = <<"A", "p", "e", "r", "t", "u", "r", "a">>
    /\ service.applies_tax = TRUE
    /\ service.frequency = <<"m", "o", "n", "t", "h", "l", "y">>
    /\ DOMAIN service.rates = MobilePlanKeys
    /\ \A k \in MobilePlanKeys : service.rates[k].type = "fixed"

\* C9: the end-to-end scenario (sheet TARIFAS, the scenario header as first
\* row, four data rows one of which is Apertura / Si / Mensual with three
\* numeric plan values) yields a mobile_plans table holding a service for
\* Apertura with applies_tax true, frequency monthly and three fixed rates.
C9_EndToEndScenario ==
    (pc \in {"transformed", "aborted", "validated"} /\ IsScenarioSheet)
        => \E service \in MobilePlanServices : IsAperturaService(service)

\* the rows of an extracted table that can be turned into a service on
\* their own: a non-blank text description and rate cells that parse
IsGoodRow(row) ==
    /\ DescripcionKey \in DOMAIN row
    /\ row[DescripcionKey].kind = "str"
    /\ Strip(row[DescripcionKey].s) # <<>>
    /\ _create_service_record(row, Strip(row[DescripcionKey].s), "rates").tag = "return"

\* the descriptions of the services of the transformed table of one type
ServiceDescriptions(table_type) ==
    IF transformed.tag = "raise" THEN {}
    ELSE UNION {{svc.description : svc \in Range(transformed.value.tables[i].value.services)} :
                   i \in {k \in 1..Len(transformed.value.tables) :
                             transformed.value.tables[k].key = table_type}}

\* C10: a failure in one data row (a rate cell that does not parse, a
\* description that is not a string) never aborts the transformation: the row
\* gives no service and every other row of the table still gives its service.
C10_RowFailureTolerated ==
    pc \in {"transformed", "aborted", "validated"} =>
        /\ transformed.tag = "return"
        /\ \A i \in 1..Len(tables[1].value) :
              LET tbl == tables[1].value[i]
                  table_type == classify_table_type(tbl)
              IN  (table_type.tag = "return" /\ table_type.value \in ValidTableTypes) =>
                     \A r \in 1..Len(tbl.data) :
                        IsGoodRow(tbl.data[r]) =>
                           Strip(tbl.data[r][DescripcionKey].s)
                              \in ServiceDescriptions(table_type.value)

-----------------------------------------------------------------------------
(* The validators as a state machine: a document arrives and one of the    *)
(* two validators reports on it                                            *)

MaxServices == 2

\* a data row with the given description and frequency cells
ValidationRow(description, frequency) ==
    (DescripcionKey :> StrVal(description))
        @@ (PlanTypes[1].col :> IntVal(FALSE, <<"7">>))
        @@ (AplicaIvaKey :> StrVal(<<"S", "i">>))
        @@ (FrecuenciaKey :> StrVal(frequency))

\* the service the pipeline makes of such a row
ServiceOf(description, frequency) ==
    _create_service_record(ValidationRow(description, frequency), description, "rates").value
        @@ [category |-> "mobile_plans"]

Without(service, field) == [k \in DOMAIN service \ {field} |-> service[k]]

AperturaService == ServiceOf(<<"A", "p", "e", "r", "t", "u", "r", "a">>, <<"M", "e", "n", "s", "u", "a", "l">>)

ValidationServices ==
    {AperturaService,
     ServiceOf(<<"R", "e", "t", "i", "r", "o", " ", "e", "n", " ", "c", "a", "j", "e", "r", "o">>, <<"A", " ", "d", "e", "m", "a", "n", "d", "a">>),
     ServiceOf([i \in 1..(MaxDescriptionLength + 1) |-> "x"], <<"A", "n", "u", "a", "l">>),
     Without(AperturaService, "frequency"),
     Without(AperturaService, "rates")}

ValidationTableTypes == {"mobile_plans", "loans"}

TableEntry(table_type, svcs) ==
    [key |-> table_type,
     value |-> _create_table_result(
                   [table_name |-> <<"T", "A", "R", "I", "F", "A", "S", "_", "D", "e", "s", "c", "r", "i", "p", "c", "i", "_", "n">>, sheet_name |-> SheetName,
                    start_row |-> 0, end_row |-> 4],
                   table_type, svcs)]

ServiceLists == UNION {[1..k -> ValidationServices] : k \in 0..MaxServices}

TableLists ==
    {<<>>}
        \cup {<<TableEntry(t, svcs)>> : t \in ValidationTableTypes, svcs \in ServiceLists}
        \cup {<<TableEntry(ts[1], s1), TableEntry(ts[2], s2)>> :
                 ts \in {q \in ValidationTableTypes \X ValidationTableTypes : q[1] # q[2]},
                 s1 \in ServiceLists, s2 \in ServiceLists}

ValidationDocs ==
    {NoneDoc, DictDoc([k \in {} |-> 0]), DictDoc([business_line |-> "accounts"])}
        \cup {DictDoc([business_line |-> "accounts", document_type |-> "rates_and_fees",
                       source_sheets |-> <<SheetName>>, tables |-> tabs]) :
                 tabs \in TableLists}

InitValidate ==
    /\ vdata \in ValidationDocs
    /\ pc = "ready"
    /\ report = Unused
    /\ DomainUnused
    /\ cell = Unused /\ rate = Unused /\ num = Unused /\ shape = Unused
    /\ sheet = Unused /\ tables = Unused /\ table = Unused /\ ttype = Unused
    /\ transformed = Unused

\* Validator(VALIDATION_RULES).validate(data)
RunValidator ==
    /\ pc = "ready"
    /\ report' = validate(vdata)
    /\ pc' = "validator_reported"
    /\ UNCHANGED domainVars
    /\ UNCHANGED <<cell, rate, num, sheet, tables, table, ttype, transformed,
                   vdata, shape>>

\* ETLPipeline._validate_data(transformed_data) on a dict
RunValidateData ==
    /\ pc = "ready"
    /\ vdata.kind = "dict"
    /\ report' = _validate_data(vdata.d)
    /\ pc' = "pipeline_reported"
    /\ UNCHANGED domainVars
    /\ UNCHANGED <<cell, rate, num, sheet, tables, table, ttype, transformed,
                   vdata, shape>>

NextValidate == RunValidator \/ RunValidateData

SpecValidate == InitValidate /\ [][NextValidate]_vars

\* C8: in every report either validator returns, the status is failed iff
\* there is at least one error, passed_with_warnings iff there is no error
\* and at least one warning, and passed iff there is neither; the early
\* returns for a missing document or missing tables included.
C8_StatusFollowsIssues ==
    pc \in {"validator_reported", "pipeline_reported"} =>
        /\ report.status = "failed" <=> report.errors # <<>>
        /\ report.status = "passed_with_warnings"
              <=> (report.errors = <<>> /\ report.warnings # <<>>)
        /\ report.status = "passed"
              <=> (report.errors = <<>> /\ report.warnings = <<>>)

\* a report with both errors and warnings, which is failed
C8_Witness ==
    /\ pc = "validator_reported"
    /\ report.errors # <<>>
    /\ report.warnings # <<>>
    /\ report.status = "failed"

-----------------------------------------------------------------------------
(* ExtractionStrategyFactory: the business line of a workbook              *)

\* _business_line_indicators, in the order of the registered strategies;
\* a pattern is the list of the literals that ".*" separates
BusinessLineIndicators ==
    <<[line |-> "accounts",
       patterns |-> <<<<<<"c", "u", "e", "n", "t", "a">>>>,
                      <<<<"t", "a", "r", "i", "f", "a">>>>,
                      <<<<"l", "i", "m", "i", "t", "e">>>>,
                      <<<<"s", "e", "r", "v", "i", "c", "i", "o">>, <<"b", "a", "n", "c", "a", "r", "i", "o">>>>,
                      <<<<"a", "c", "c", "o", "u", "n", "t">>>>,
                      <<<<"f", "e", "e">>>>,
                      <<<<"b", "a", "n", "k", "i", "n", "g">>, <<"s", "e", "r", "v", "i", "c", "e">>>>>>],
      [line |-> "loans",
       patterns |-> <<<<<<"c", "r", "e", "d", "i", "t", "o">>>>,
                      <<<<"p", "r", "e", "s", "t", "a", "m", "o">>>>,
                      <<<<"t", "a", "s", "a">>, <<"c", "r", "e", "d", "i", "t", "o">>>>,
                      <<<<"c", "u", "p", "o">>>>,
                      <<<<"c", "r", "e", "d", "i", "t">>>>,
                      <<<<"l", "o", "a", "n">>>>,
                      <<<<"l", "e", "n", "d", "i", "n", "g">>>>>>]>>

\* re.search of literal.*literal... in s from position i on: each literal
\* occurs after the one before it, on the same line
RECURSIVE PatternSearchFrom(_, _, _, _)
PatternSearchFrom(parts, k, s, i) ==
    IF k > Len(parts) THEN TRUE
    ELSE \E j \in i..(Len(s) - Len(parts[k]) + 1) :
            /\ SubSeq(s, j, j + Len(parts[k]) - 1) = parts[k]
            /\ k > 1 => \A m \in i..(j - 1) : s[m] # "\n"
            /\ PatternSearchFrom(parts, k + 1, s, j + Len(parts[k]))

\* re.search(pattern, s)
PatternSearch(parts, s) == PatternSearchFrom(parts, 1, s, 1)

\* the number of (text, pattern) pairs that match
PatternMatches(patterns, texts) ==
    Cardinality({q \in (1..Len(texts)) \X (1..Len(patterns)) :
                    PatternSearch(patterns[q[2]], Lower(texts[q[1]]))})

\* scores[business_line] at the end of detect_business_line
BusinessLineScore(k, sheet_names, filename) ==
    PatternMatches(BusinessLineIndicators[k].patterns, sheet_names)
    + (IF filename # <<>>
       THEN 2 * PatternMatches(BusinessLineIndicators[k].patterns, <<filename>>)
       ELSE 0)

\* max(scores, key=scores.get): the first line that has the highest score
FirstHighest(scores) ==
    CHOOSE k \in 1..Len(scores) :
        /\ \A j \in 1..Len(scores) : scores[j] <= scores[k]
        /\ \A j \in 1..(k - 1) : scores[j] < scores[k]

detect_business_line(sheet_names, filename) ==
    LET scores == [k \in 1..Len(BusinessLineIndicators) |->
                      BusinessLineScore(k, sheet_names, filename)]
    IN  IF \E k \in 1..Len(scores) : scores[k] > 0
        THEN BusinessLineIndicators[FirstHighest(scores)].line
        ELSE "accounts"

MaxSheets == 3

DetectSheetNames ==
    {<<"T", "a", "r", "i", "f", "a", "s">>,
     <<"C", "u", "e", "n", "t", "a", " ", "t", "a", "r", "i", "f", "a">>,
     <<"C", "r", "e", "d", "i", "t", "o">>,
     <<"P", "r", "e", "s", "t", "a", "m", "o", "s">>,
     <<"H", "o", "j", "a", "1">>}

DetectFilenames ==
    {<<>>,
     <<"t", "a", "r", "i", "f", "a", "s", ".", "x", "l", "s", "x">>,
     <<"c", "r", "e", "d", "i", "t", "o", ".", "x", "l", "s", "x">>,
     <<"d", "a", "t", "o", "s", ".", "x", "l", "s", "x">>}

InitDetect ==
    /\ operand \in [sheet_names : UNION {[1..k -> DetectSheetNames] : k \in 0..MaxSheets},
                     filename : DetectFilenames]
    /\ outcome = Unused
    /\ pc = "ready"
    /\ PipelineUnused
    /\ ProcessUnused

DetectBusinessLine ==
    /\ pc = "ready"
    /\ outcome' = detect_business_line(operand.sheet_names, operand.filename)
    /\ pc' = "detected"
    /\ UNCHANGED operand
    /\ UNCHANGED <<pipelineVars, processVars>>

NextDetect == DetectBusinessLine

SpecDetect == InitDetect /\ [][NextDetect]_vars

\* the score the rule gives line k: 1 for each sheet name that matches one
\* of its patterns, 2 for a filename that matches one
RuleScore(k, sheet_names, filename) ==
    Cardinality({i \in 1..Len(sheet_names) :
                    \E p \in 1..Len(BusinessLineIndicators[k].patterns) :
                        PatternSearch(BusinessLineIndicators[k].patterns[p],
                                      Lower(sheet_names[i]))})
    + (IF \E p \in 1..Len(BusinessLineIndicators[k].patterns) :
             PatternSearch(BusinessLineIndicators[k].patterns[p], Lower(filename))
       THEN 2 ELSE 0)

\* C13: detect_business_line gives each business line 1 point per sheet
\* name that matches one of its indicator patterns and 2 points for a
\* filename match, and returns the line with the highest score, the line
\* declared first on a tie, and accounts when all scores are zero.
C13_ScoreBasedDetection ==
    pc = "detected" =>
        LET scores == [k \in 1..Len(BusinessLineIndicators) |->
                          RuleScore(k, operand.sheet_names, operand.filename)]
        IN  outcome = BusinessLineIndicators[FirstHighest(scores)].line

-----------------------------------------------------------------------------
(* Domain entities: Rate, FinancialService, Document                       *)
(* A Decimal is kept as its sign and digits (the fraction digits as        *)
(* written, so Decimal('7510.50') keeps its trailing zero).  The clock     *)
(* fields (created_at, last_updated) are left out.                         *)

DecimalVal(neg, ip, fp) == [kind |-> "decimal", neg |-> neg, int |-> ip, frac |-> fp]

\* str(v), v a Decimal or any other value
ValueStr(v) ==
    IF v.kind = "decimal"
    THEN (IF v.neg THEN <<"-">> ELSE <<>>)
           \o (IF v.int = <<>> THEN <<"0">> ELSE v.int)
           \o (IF v.frac # <<>> THEN <<".">> \o v.frac ELSE <<>>)
    ELSE PyStr(v)

\* v < 0: a number below zero; a str or None cannot be compared with 0
LessThanZero(v) ==
    IF v.kind \in {"decimal", "num"}
    THEN Return(v.neg /\ (StripLeadingZeros(v.int) # <<>> \/ StripTrailingZeros(v.frac) # <<>>))
    ELSE Raise("TypeError")

\* Rate(...) with the dataclass's __post_init__
Rate(type, value, currency, included_free, additional_cost) ==
    IF type = "conditional" /\ (included_free = NoneVal \/ additional_cost = NoneVal)
    THEN Raise("ValueError")
    ELSE IF LessThanZero(value).tag = "raise" THEN LessThanZero(value)
    ELSE IF LessThanZero(value).value THEN Raise("ValueError")
    ELSE Return([type |-> type, value |-> value, currency |-> currency,
                 included_free |-> included_free, additional_cost |-> additional_cost])

DecimalZero == DecimalVal(FALSE, <<>>, <<>>)

Rate_fixed(value, currency) == Rate("fixed", value, currency, NoneVal, NoneVal)

Rate_percentage(value) == Rate("percentage", value, NoneVal, NoneVal, NoneVal)

Rate_conditional(included_free, additional_cost, currency) ==
    Rate("conditional", DecimalZero, currency, included_free, additional_cost)

Rate_unlimited == Rate("unlimited", DecimalZero, NoneVal, NoneVal, NoneVal)

\* dict.get(key)
DictGet(dict, key) == IF key \in DOMAIN dict THEN dict[key] ELSE NoneVal

Rate_to_dict(rt) ==
    [type |-> rt.type, value |-> StrVal(ValueStr(rt.value))]
      @@ (IF Truthy(rt.currency) THEN [currency |-> rt.currency] ELSE <<>>)
      @@ (IF rt.type = "conditional"
          THEN [included_free |-> rt.included_free,
                additional_cost |-> StrVal(ValueStr(rt.additional_cost))]
          ELSE <<>>)

\* FinancialService.add_rate: self.rates[plan_name] = rate
add_rate(rates, plan_name, rt) ==
    IF \E i \in 1..Len(rates) : rates[i].key = plan_name
    THEN [i \in 1..Len(rates) |->
            IF rates[i].key = plan_name THEN [key |-> plan_name, value |-> rt] ELSE rates[i]]
    ELSE Append(rates, [key |-> plan_name, value |-> rt])

FinancialService_to_dict(service) ==
    [service_id |-> service.service_id,
     description |-> service.description,
     business_line |-> service.business_line,
     table_type |-> service.table_type,
     rates |-> [i \in 1..Len(service.rates) |->
                  [key |-> service.rates[i].key,
                   value |-> Rate_to_dict(service.rates[i].value)]],
     document_id |-> service.document_id,
     source_position |-> service.source_position]

\* the rate FinancialService.from_dict rebuilds from one entry of data['rates']
RateOfDict(rate_data) ==
    CASE rate_data.type = "conditional" ->
            Rate_conditional(rate_data.included_free, rate_data.additional_cost,
                             DictGet(rate_data, "currency"))
      [] rate_data.type = "percentage" -> Rate_percentage(rate_data.value)
      [] rate_data.type = "unlimited" -> Rate_unlimited
      [] OTHER -> Rate_fixed(rate_data.value, DictGet(rate_data, "currency"))

RECURSIVE RestoreRates(_, _, _)
\* the rates loop of FinancialService.from_dict from entry i on, service
\* holding the rates added so far
RestoreRate(service, entries, i, rt) ==
    IF rt.tag = "raise" THEN rt
    ELSE RestoreRates([service EXCEPT !.rates = add_rate(@, entries[i].key, rt.value)],
                      entries, i + 1)

RestoreRates(service, entries, i) ==
    IF i > Len(entries) THEN Return(service)
    ELSE RestoreRate(service, entries, i, RateOfDict(entries[i].value))

FinancialService_from_dict(data) ==
    RestoreRates([service_id |-> data.service_id,
                  description |-> data.description,
                  business_line |-> data.business_line,
                  table_type |-> data.table_type,
                  rates |-> <<>>,
                  document_id |-> DictGet(data, "document_id"),
                  source_position |-> data.source_position],
                 data.rates, 1)

\* Document(document_id, business_line, filename)
NewDocument(document_id, business_line, filename) ==
    [document_id |-> document_id, business_line |-> business_line,
     filename |-> filename, services |-> <<>>, processing_metadata |-> <<>>,
     version |-> "v1"]

\* add_service putting the service in front of the list
add_service_Prepend(document, service) ==
    [document EXCEPT
        !.services = <<[service EXCEPT !.document_id = document.document_id]>> \o @]

add_service(document, service) ==
    [document EXCEPT
        !.services = Append(@, [service EXCEPT !.document_id = document.document_id])]

get_service_count(document) == Len(document.services)

\* counts[table_type] for the table types of the document's services
get_service_count_by_table_type(document) ==
    [t \in {document.services[i].table_type : i \in 1..Len(document.services)} |->
        Cardinality({i \in 1..Len(document.services) : document.services[i].table_type = t})]

Document_to_dict(document) ==
    [document_id |-> document.document_id,
     business_line |-> document.business_line,
     filename |-> document.filename,
     document_version |-> document.version,
     processing_metadata |-> document.processing_metadata,
     services |-> [i \in 1..Len(document.services) |->
                     FinancialService_to_dict(document.services[i])],
     summary |-> [total_services |-> get_service_count(document),
                  services_by_type |-> get_service_count_by_table_type(document)]]

RECURSIVE RestoreServices(_, _, _)
\* the services loop of Document.from_dict from entry i on
RestoreService(document, services, i, service) ==
    IF service.tag = "raise" THEN service
    ELSE RestoreServices(add_service(document, service.value), services, i + 1)

RestoreServices(document, services, i) ==
    IF i > Len(services) THEN Return(document)
    ELSE RestoreService(document, services, i, FinancialService_from_dict(services[i]))

Document_from_dict(data) ==
    RestoreServices([NewDocument(data.document_id, data.business_line, data.filename)
                        EXCEPT !.processing_metadata = data.processing_metadata,
                               !.version = data.document_version],
                    data.services, 1)

-----------------------------------------------------------------------------
(* Serialization: Document.from_dict(document.to_dict())                   *)

MaxDocServices == 2

Cop == StrVal(<<"C", "O", "P">>)

\* rates of the four kinds, built by the factory methods
EntityRates ==
    { Rate_fixed(DecimalVal(FALSE, <<"7", "5", "1", "0">>, <<"5", "0">>), Cop).value,
      Rate_percentage(DecimalVal(FALSE, <<"8">>, <<"5">>)).value,
      Rate_conditional(IntVal(FALSE, <<"3">>),
                       DecimalVal(FALSE, <<"7", "5", "1", "0">>, <<"5", "0">>), Cop).value,
      Rate_unlimited.value }

PlanGZero == <<"g", "_", "z", "e", "r", "o">>
PlanPuls == <<"p", "u", "l", "s">>

\* FinancialService(...) followed by one or two add_rate calls
EntityServices ==
    LET base == [service_id |-> <<"r", "e", "t", "i", "r", "o", "_", "1">>,
                 description |-> <<"R", "e", "t", "i", "r", "o">>,
                 business_line |-> "accounts",
                 table_type |-> "other_tarifas",
                 rates |-> <<>>,
                 document_id |-> NoneVal,
                 source_position |-> NoneVal]
    IN  { [base EXCEPT !.rates = add_rate(@, PlanGZero, r)] : r \in EntityRates }
          \cup { [base EXCEPT !.rates = add_rate(add_rate(@, PlanGZero, r), PlanPuls, q)] :
                    r \in EntityRates, q \in EntityRates }

RECURSIVE AddServices(_, _, _)
\* add_service for services[i..]
AddServices(document, services, i) ==
    IF i > Len(services) THEN document
    ELSE AddServices(add_service(document, services[i]), services, i + 1)

EntityDocuments ==
    { AddServices(NewDocument(<<"d", "1">>, "accounts", <<"t", ".", "x", "l", "s", "x">>), ss, 1) :
        ss \in UNION { [1..n -> EntityServices] : n \in 0..MaxDocServices } }

InitRoundTrip ==
    /\ pc = "built"
    /\ operand \in EntityDocuments
    /\ outcome = Unused
    /\ PipelineUnused
    /\ ProcessUnused

\* document.to_dict()
ToDict ==
    /\ pc = "built"
    /\ outcome' = Document_to_dict(operand)
    /\ pc' = "serialized"
    /\ UNCHANGED <<operand>>
    /\ UNCHANGED <<pipelineVars, processVars>>

\* Document.from_dict(data)
FromDict ==
    /\ pc = "serialized"
    /\ outcome' = Document_from_dict(outcome)
    /\ pc' = "restored"
    /\ UNCHANGED <<operand>>
    /\ UNCHANGED <<pipelineVars, processVars>>

NextRoundTrip == ToDict \/ FromDict

SpecRoundTrip == InitRoundTrip /\ [][NextRoundTrip]_vars

\* rates a and b have the same type and exactly the same numbers
SameRate(a, b) ==
    /\ a.type = b.type
    /\ a.value = b.value
    /\ a.included_free = b.included_free
    /\ a.additional_cost = b.additional_cost

SameService(a, b) ==
    /\ a.service_id = b.service_id
    /\ a.description = b.description
    /\ Len(a.rates) = Len(b.rates)
    /\ \A i \in 1..Len(a.rates) :
          /\ a.rates[i].key = b.rates[i].key
          /\ SameRate(a.rates[i].value, b.rates[i].value)

SameServices(a, b) ==
    /\ Len(a.services) = Len(b.services)
    /\ \A i \in 1..Len(a.services) : SameService(a.services[i], b.services[i])

\* C14: restoring a serialized document succeeds and yields the same ordered
\* services, with rates of the same type and exactly the same value,
\* included_free and additional_cost.
C14_RoundTrip ==
    pc = "restored" => (outcome.tag = "return" /\ SameServices(outcome.value, operand))

-----------------------------------------------------------------------------
(* Rates of a numeric kind: the Rate entity and the descriptor of a        *)
(* numeric cell                                                            *)

EntityRateTypes == {"fixed", "percentage", "conditional", "unlimited"}

RateValues ==
    {DecimalVal(TRUE, <<"1">>, <<>>),
     DecimalVal(TRUE, <<>>, <<"0", "1">>),
     DecimalZero,
     DecimalVal(FALSE, <<"5">>, <<"5">>),
     DecimalVal(FALSE, <<"8", "9", "9", "0">>, <<>>)}

\* the calls under study: Rate(...) with its arguments, parse_rate_value
\* with a numeric cell
RateCalls ==
    {[op |-> "Rate", type |-> t, value |-> v, included_free |-> n, additional_cost |-> c] :
        t \in EntityRateTypes, v \in RateValues,
        n \in {NoneVal, IntVal(FALSE, <<"3">>)},
        c \in {NoneVal, DecimalVal(FALSE, <<"1", "0", "0">>, <<>>)}}
      \cup {[op |-> "parse_rate_value", rate_value |-> c] : c \in NumberCells}

InitNumericRate ==
    /\ pc = "ready"
    /\ operand \in RateCalls
    /\ outcome = Unused
    /\ PipelineUnused
    /\ ProcessUnused

\* Rate(type, value, None, included_free, additional_cost)
ConstructRate ==
    /\ pc = "ready"
    /\ operand.op = "Rate"
    /\ outcome' = Rate(operand.type, operand.value, NoneVal,
                       operand.included_free, operand.additional_cost)
    /\ pc' = "constructed"
    /\ UNCHANGED <<operand>>
    /\ UNCHANGED <<pipelineVars, processVars>>

\* parse_rate_value(rate_value), rate_value an int or a float
ParseNumericCell ==
    /\ pc = "ready"
    /\ operand.op = "parse_rate_value"
    /\ outcome' = parse_rate_value(operand.rate_value)
    /\ pc' = "parsed"
    /\ UNCHANGED <<operand>>
    /\ UNCHANGED <<pipelineVars, processVars>>

NextNumericRate == ConstructRate \/ ParseNumericCell

SpecNumericRate == InitNumericRate /\ [][NextNumericRate]_vars

\* v is a number below zero
IsNegative(v) == v.neg /\ (StripLeadingZeros(v.int) # <<>> \/ StripTrailingZeros(v.frac) # <<>>)

\* C17: every numeric rate produced has a value >= 0: constructing a Rate
\* with a negative value raises ValueError, a constructed conditional Rate
\* carries both sub-fields, and the fixed descriptor of a numeric cell is
\* not negative.
C17_NonNegativeRates ==
    /\ pc = "constructed" =>
          /\ IsNegative(operand.value) => outcome = Raise("ValueError")
          /\ outcome.tag = "return" =>
                /\ ~IsNegative(outcome.value.value)
                /\ outcome.value.type = "conditional" =>
                      (outcome.value.included_free # NoneVal
                         /\ outcome.value.additional_cost # NoneVal)
    /\ pc = "parsed" =>
          (outcome.tag = "return" /\ ~IsNegative(outcome.value.value))

-----------------------------------------------------------------------------
(* ExcelProcessorService                                                   *)

\* the characters of s that are in keep, in order
KeepChars(s, keep) == SeqFilter(s, {i \in 1..Len(s) : s[i] \in keep})

\* Decimal(s) for s made of digits, '.', ',' and '-': None where Decimal
\* raises InvalidOperation
DecimalOfParts(neg, body, parts) ==
    IF \/ Len(parts) > 2
       \/ \E i \in 1..Len(body) : body[i] \notin Digits \cup {"."}
       \/ \A i \in 1..Len(body) : body[i] \notin Digits
    THEN NoneVal
    ELSE DecimalVal(neg, StripLeadingZeros(parts[1]),
                    IF Len(parts) = 2 THEN parts[2] ELSE <<>>)

DecimalOfBody(neg, body) == DecimalOfParts(neg, body, Split(body, "."))

DecimalOf(s) ==
    IF s # <<>> /\ s[1] = "-" THEN DecimalOfBody(TRUE, Tail(s))
    ELSE DecimalOfBody(FALSE, s)

\* parse_colombian_number once a ',' was found
ColombianWithComma(parts) ==
    IF Len(parts) = 2
    THEN DecimalOf(RemoveChar(parts[1], ".") \o <<".">> \o parts[2])
    ELSE NoneVal

\* parse_colombian_number without a ','
ColombianWithDots(value_str, dot_parts) ==
    IF Len(dot_parts) > 1
    THEN IF Len(dot_parts[Len(dot_parts)]) <= 2 /\ Len(dot_parts) > 2
         THEN DecimalOf(Concat(SubSeq(dot_parts, 1, Len(dot_parts) - 1))
                          \o <<".">> \o dot_parts[Len(dot_parts)])
         ELSE DecimalOf(RemoveChar(value_str, "."))
    ELSE DecimalOf(value_str)

\* parse_colombian_number from the text left by re.sub(r'[^\d.,\-]', '', ...)
ColombianOfCleaned(value_str) ==
    IF value_str = <<>> THEN NoneVal
    ELSE IF \E i \in 1..Len(value_str) : value_str[i] = ","
    THEN ColombianWithComma(Split(value_str, ","))
    ELSE ColombianWithDots(value_str, Split(value_str, "."))

parse_colombian_number(value) ==
    IF value = <<>> \/ Strip(value) = <<>> THEN NoneVal
    ELSE ColombianOfCleaned(KeepChars(Strip(value), Digits \cup {".", ",", "-"}))

DecimalIsZero(v) == StripLeadingZeros(v.int) = <<>> /\ StripTrailingZeros(v.frac) = <<>>

\* v < 1
DecimalBelowOne(v) == StripLeadingZeros(v.int) = <<>> \/ IsNegative(v)

\* v > 10^k, v a Decimal
DecimalAbovePowerOfTen(v, k) ==
    /\ ~v.neg
    /\ \/ Len(StripLeadingZeros(v.int)) > k + 1
       \/ /\ Len(StripLeadingZeros(v.int)) = k + 1
          /\ \/ StripLeadingZeros(v.int) # <<"1">> \o [i \in 1..k |-> "0"]
             \/ StripTrailingZeros(v.frac) # <<>>

\* detect_rate_type once the text rules did not apply
RateTypeOfParsed(parsed) ==
    IF parsed = NoneVal THEN "fixed"
    ELSE IF DecimalIsZero(parsed) THEN "unlimited"
    ELSE IF DecimalBelowOne(parsed) THEN "percentage"
    ELSE "fixed"

\* detect_rate_type on value_str = str(value).lower().strip()
RateTypeOfStr(value_str, column_name) ==
    IF Contains(value_str, <<"u", "n", "l", "i", "m", "i", "t", "e", "d">>)
         \/ Contains(value_str, <<"i", "l", "i", "m", "i", "t", "a", "d", "o">>)
    THEN "unlimited"
    ELSE IF Contains(value_str, <<"%">>) \/ Contains(Lower(column_name), <<"e", ".", "a", ".">>)
    THEN "percentage"
    ELSE IF Contains(value_str, <<"g", "r", "a", "t", "i", "s">>) /\ Contains(value_str, <<"+">>)
    THEN "conditional"
    ELSE RateTypeOfParsed(parse_colombian_number(value_str))

detect_rate_type(value, column_name) ==
    IF value = NoneVal THEN "unlimited"
    ELSE RateTypeOfStr(Strip(Lower(PyStr(value))), column_name)

\* create_rate_from_value once the type is known, parsed_value being
\* parse_colombian_number(str(value))
RateOfType(rate_type, parsed_value) ==
    CASE rate_type = "percentage" -> Rate_percentage(parsed_value)
      [] rate_type = "fixed" ->
            Rate_fixed(parsed_value,
                       IF DecimalAbovePowerOfTen(parsed_value, 3) THEN Cop ELSE NoneVal)
      [] OTHER -> Rate_fixed(parsed_value, NoneVal)

OrDecimalZero(parsed_value) == IF parsed_value = NoneVal THEN DecimalZero ELSE parsed_value

create_rate_from_value(value, column_name) ==
    IF detect_rate_type(value, column_name) = "unlimited" THEN Rate_unlimited
    ELSE RateOfType(detect_rate_type(value, column_name),
                    OrDecimalZero(parse_colombian_number(PyStr(value))))

BusinessLineMapping ==
    <<[key |-> <<"t", "a", "r", "i", "f", "a", "s">>, business_line |-> "accounts"],
      [key |-> <<"l", "i", "m", "i", "t", "e", "s">>, business_line |-> "accounts"],
      [key |-> <<"t", "a", "s", "a", "s">>, business_line |-> "loans"]>>

RECURSIVE ClassifyFrom(_, _)
ClassifyFrom(table_lower, i) ==
    IF i > Len(BusinessLineMapping) THEN "other"
    ELSE IF Contains(table_lower, BusinessLineMapping[i].key)
    THEN BusinessLineMapping[i].business_line
    ELSE ClassifyFrom(table_lower, i + 1)

classify_business_line(table_type) == ClassifyFrom(Lower(table_type), 1)

RECURSIVE WhitespaceRunsTo(_, _)
\* re.sub(r'\s+', sep, s)
WhitespaceRunsTo(s, sep) ==
    IF s = <<>> THEN <<>>
    ELSE IF s[1] \in WhitespaceChars
    THEN sep \o WhitespaceRunsTo(SubSeq(s, SpaceRunEnd(s, 1), Len(s)), sep)
    ELSE <<s[1]>> \o WhitespaceRunsTo(Tail(s), sep)

MaxCleanDesc == 30

\* generate_service_id: the description cleaned for the id
CleanDesc(description) ==
    WhitespaceRunsTo(Strip(KeepChars(Lower(description),
                                     {c \in Range(Lower(description)) :
                                         IsWordChar(c) \/ c \in WhitespaceChars})),
                     <<"_">>)

\* ExcelProcessorService.generate_service_id
processor_generate_service_id(description, table_type, row_index) ==
    SubSeq(CleanDesc(description), 1, MinOf2(MaxCleanDesc, Len(CleanDesc(description))))
      \o <<"_">> \o NatStr(row_index)

-----------------------------------------------------------------------------
(* OpenpyxlExcelAdapter                                                    *)
(* A workbook is the sequence of its sheets; a worksheet has a name and a  *)
(* grid of cells (rows of equal width, at least one), a chartsheet has     *)
(* only a name.  Rows and columns are counted from 1 as openpyxl does.     *)

\* dict[key] = value on an ordered dict
DictSet(dict, key, value) == add_rate(dict, key, value)

ContainsAny(s, lits) == \E lit \in lits : Contains(s, lit)

AccountsSheetTerms ==
    {<<"t", "a", "r", "i", "f", "a">>, <<"l", "i", "m", "i", "t", "e">>,
     <<"c", "u", "e", "n", "t", "a">>}

LoansSheetTerms ==
    {<<"t", "a", "s", "a">>, <<"c", "r", "e", "d", "i", "t", "o">>,
     <<"p", "r", "e", "s", "t", "a", "m", "o">>}

\* the business line counted for one sheet name
SheetLine(sheet_name) ==
    IF ContainsAny(Lower(sheet_name), AccountsSheetTerms) THEN "accounts"
    ELSE IF ContainsAny(Lower(sheet_name), LoansSheetTerms) THEN "loans"
    ELSE "other"

LineCount(sheet_names, line) ==
    Cardinality({i \in 1..Len(sheet_names) : SheetLine(sheet_names[i]) = line})

\* max(business_line_counts, key=...): the first of accounts, loans, other
\* with the highest count
_determine_business_line(sheet_names) ==
    IF /\ LineCount(sheet_names, "accounts") >= LineCount(sheet_names, "loans")
       /\ LineCount(sheet_names, "accounts") >= LineCount(sheet_names, "other")
    THEN "accounts"
    ELSE IF LineCount(sheet_names, "loans") >= LineCount(sheet_names, "other")
    THEN "loans"
    ELSE "other"

RelevantPatterns ==
    {<<"t", "a", "r", "i", "f", "a">>, <<"l", "i", "m", "i", "t", "e">>,
     <<"t", "a", "s", "a">>, <<"r", "a", "t", "e">>, <<"f", "e", "e">>,
     <<"c", "o", "s", "t">>}

_get_relevant_sheets(sheet_names) ==
    SeqFilter(sheet_names,
              {i \in 1..Len(sheet_names) : ContainsAny(Lower(sheet_names[i]), RelevantPatterns)})

HeaderIndicators ==
    {<<"s", "e", "r", "v", "i", "c", "i", "o">>,
     <<"d", "e", "s", "c", "r", "i", "p", "c", "i", "o", "n">>,
     <<"c", "o", "n", "c", "e", "p", "t", "o">>,
     <<"p", "l", "a", "n">>,
     <<"t", "a", "r", "i", "f", "a">>,
     <<"l", "i", "m", "i", "t", "e">>,
     <<"t", "a", "s", "a">>,
     <<"s", "e", "r", "v", "i", "c", "e">>,
     <<"d", "e", "s", "c", "r", "i", "p", "t", "i", "o", "n">>,
     <<"c", "o", "n", "c", "e", "p", "t">>,
     <<"r", "a", "t", "e">>,
     <<"f", "e", "e">>,
     <<"l", "i", "m", "i", "t">>}

HeaderScanLimit == 10

\* the row holds a header indicator in one of its first columns
HasHeaderIndicator(row) ==
    \E j \in 1..MinOf2(HeaderScanLimit - 1, Len(row)) :
        /\ Truthy(row[j])
        /\ ContainsAny(Strip(Lower(PyStr(row[j]))), HeaderIndicators)

HeaderRowCandidates(rows) ==
    {row_idx \in 1..MinOf2(HeaderScanLimit - 1, Len(rows)) : HasHeaderIndicator(rows[row_idx])}

_find_header_row(rows) ==
    IF HeaderRowCandidates(rows) # {} THEN MinOfSet(HeaderRowCandidates(rows)) ELSE 1

_extract_headers(rows, header_row_idx) ==
    [col_idx \in 1..Len(rows[header_row_idx]) |->
        IF Truthy(rows[header_row_idx][col_idx])
        THEN Strip(PyStr(rows[header_row_idx][col_idx]))
        ELSE <<"c", "o", "l", "u", "m", "n", "_">> \o NatStr(col_idx)]

RECURSIVE RowData(_, _, _, _)
\* row_data[header] = cell_value for the columns from col_idx on
RowData(headers, row, col_idx, row_data) ==
    IF col_idx > Len(headers) THEN row_data
    ELSE RowData(headers, row, col_idx + 1, DictSet(row_data, headers[col_idx], row[col_idx]))

DescriptionPatterns ==
    <<<<"d", "e", "s", "c", "r", "i", "p", "c", "i", "o", "n">>,
      <<"s", "e", "r", "v", "i", "c", "i", "o">>,
      <<"c", "o", "n", "c", "e", "p", "t", "o">>,
      <<"d", "e", "s", "c", "r", "i", "p", "t", "i", "o", "n">>,
      <<"s", "e", "r", "v", "i", "c", "e">>,
      <<"c", "o", "n", "c", "e", "p", "t">>>>

\* the entries of row_data whose header holds the pattern and whose value is
\* truthy
PatternHits(row_data, pattern) ==
    {i \in 1..Len(row_data) :
        Contains(Lower(row_data[i].key), pattern) /\ Truthy(row_data[i].value)}

\* the entries with a non-blank value
NonBlankEntries(row_data) ==
    {i \in 1..Len(row_data) :
        Truthy(row_data[i].value) /\ Strip(PyStr(row_data[i].value)) # <<>>}

\* _find_description: None, or the description text
_find_description(row_data) ==
    IF \E k \in 1..Len(DescriptionPatterns) : PatternHits(row_data, DescriptionPatterns[k]) # {}
    THEN StrVal(Strip(PyStr(row_data[MinOfSet(PatternHits(row_data,
            DescriptionPatterns[MinOfSet({k \in 1..Len(DescriptionPatterns) :
                PatternHits(row_data, DescriptionPatterns[k]) # {}})]))].value)))
    ELSE IF NonBlankEntries(row_data) # {}
    THEN StrVal(Strip(PyStr(row_data[MinOfSet(NonBlankEntries(row_data))].value)))
    ELSE NoneVal

\* re.sub(r'[^\w\s]', ' ', header.lower()), then the whitespace runs to '_'
_normalize_plan_name(header) ==
    WhitespaceRunsTo(Strip([i \in 1..Len(header) |->
                              IF IsWordChar(Lower(header)[i]) \/ Lower(header)[i] \in WhitespaceChars
                              THEN Lower(header)[i] ELSE " "]),
                     <<"_">>)

SkippedHeaders ==
    {<<"d", "e", "s", "c", "r", "i", "p", "c", "i", "o", "n">>,
     <<"s", "e", "r", "v", "i", "c", "i", "o">>,
     <<"c", "o", "n", "c", "e", "p", "t", "o">>}

RECURSIVE RowRates(_, _, _, _)
\* the rates loop of _extract_service_from_row from entry i on; a rate whose
\* creation raises is skipped
RowRate(rates, header, rt) ==
    IF rt.tag = "raise" THEN rates
    ELSE add_rate(rates, _normalize_plan_name(header), rt.value)

RowRates(rates, row_data, description, i) ==
    IF i > Len(row_data) THEN rates
    ELSE IF \/ row_data[i].key = description
            \/ row_data[i].value = NoneVal
            \/ Strip(PyStr(row_data[i].value)) = <<>>
            \/ row_data[i].key \in SkippedHeaders
    THEN RowRates(rates, row_data, description, i + 1)
    ELSE RowRates(RowRate(rates, row_data[i].key,
                          create_rate_from_value(row_data[i].value, row_data[i].key)),
                  row_data, description, i + 1)

OtherPrefix == <<"o", "t", "h", "e", "r", "_">>

\* _extract_service_from_row once the description was found
ServiceOfRow(row_data, description, row_idx, headers, sheet_name, document_id, service_index) ==
    IF description = NoneVal \/ Strip(description.s) = <<>> THEN NoneVal
    ELSE [service_id |-> processor_generate_service_id(description.s,
                              OtherPrefix \o Lower(sheet_name), service_index),
          description |-> description.s,
          business_line |-> classify_business_line(OtherPrefix \o Lower(sheet_name)),
          table_type |-> OtherPrefix \o Lower(sheet_name),
          rates |-> RowRates(<<>>, row_data, description.s, 1),
          document_id |-> document_id,
          source_position |-> [sheet |-> sheet_name, row |-> row_idx, header_row |-> headers]]

_extract_service_from_row(rows, row_idx, headers, sheet_name, document_id, service_index) ==
    ServiceOfRow(RowData(headers, rows[row_idx], 1, <<>>),
                 _find_description(RowData(headers, rows[row_idx], 1, <<>>)),
                 row_idx, headers, sheet_name, document_id, service_index)

RECURSIVE RowServices(_, _, _, _, _, _)
\* the data-row loop of _extract_services_from_sheet from row_idx on
KeepService(services, service) ==
    IF service # NoneVal /\ Strip(service.description) # <<>>
    THEN Append(services, service) ELSE services

RowServices(services, rows, row_idx, header_row_idx, sheet_name, document_id) ==
    IF row_idx > Len(rows) THEN services
    ELSE RowServices(KeepService(services,
                        _extract_service_from_row(rows, row_idx,
                            _extract_headers(rows, header_row_idx), sheet_name,
                            document_id, row_idx - header_row_idx)),
                     rows, row_idx + 1, header_row_idx, sheet_name, document_id)

\* _extract_services_from_sheet: a chartsheet has no max_row
_extract_services_from_sheet(sh, sheet_name, document_id) ==
    IF sh.kind = "chartsheet" THEN Raise("AttributeError")
    ELSE Return(RowServices(<<>>, sh.rows, _find_header_row(sh.rows) + 1,
                            _find_header_row(sh.rows), sheet_name, document_id))

-----------------------------------------------------------------------------
(* DataValidatorService and ValidationReport                               *)

ValidationIssue(level, message, field, service_id, table_type) ==
    [level |-> level, message |-> message, field |-> field,
     service_id |-> service_id, table_type |-> table_type]

\* the issue when cond holds, nothing otherwise
IssueIf(cond, issue) == IF cond THEN <<issue>> ELSE <<>>

_validate_document_metadata(document) ==
    IssueIf(document.filename = <<>>,
            ValidationIssue("error", <<"D", "o", "c", "u", "m", "e", "n", "t", " ", "f", "i", "l", "e", "n", "a", "m", "e", " ", "i", "s", " ", "m", "i", "s", "s", "i", "n", "g">>, <<>>, <<>>, <<>>))
      \o IssueIf(document.business_line = "",
            ValidationIssue("error", <<"D", "o", "c", "u", "m", "e", "n", "t", " ", "b", "u", "s", "i", "n", "e", "s", "s", " ", "l", "i", "n", "e", " ", "i", "s", " ", "m", "i", "s", "s", "i", "n", "g">>, <<>>, <<>>, <<>>))
      \o IssueIf(get_service_count(document) = 0,
            ValidationIssue("warning", <<"D", "o", "c", "u", "m", "e", "n", "t", " ", "c", "o", "n", "t", "a", "i", "n", "s", " ", "n", "o", " ", "s", "e", "r", "v", "i", "c", "e", "s">>, <<>>, <<>>, <<>>))
      \o IssueIf(document.document_id = <<>>,
            ValidationIssue("error", <<"D", "o", "c", "u", "m", "e", "n", "t", " ", "I", "D", " ", "i", "s", " ", "m", "i", "s", "s", "i", "n", "g">>, <<>>, <<>>, <<>>))

_validate_rate(rt, plan_name, service) ==
    IssueIf(IsNegative(rt.value),
            ValidationIssue("error",
                <<"R", "a", "t", "e", " ", "v", "a", "l", "u", "e", " ", "c", "a", "n", "n", "o", "t", " ", "b", "e", " ", "n", "e", "g", "a", "t", "i", "v", "e", " ", "f", "o", "r", " ", "p", "l", "a", "n", " ", "'">> \o plan_name \o <<"'">>,
                <<"r", "a", "t", "e", "_", "v", "a", "l", "u", "e">>, service.service_id, service.table_type))
      \o IssueIf(rt.type = "conditional" /\ rt.included_free = NoneVal,
            ValidationIssue("error",
                <<"C", "o", "n", "d", "i", "t", "i", "o", "n", "a", "l", " ", "r", "a", "t", "e", " ", "m", "i", "s", "s", "i", "n", "g", " ", "'", "i", "n", "c", "l", "u", "d", "e", "d", "_", "f", "r", "e", "e", "'", " ", "f", "o", "r", " ", "p", "l", "a", "n", " ", "'">> \o plan_name \o <<"'">>,
                <<"i", "n", "c", "l", "u", "d", "e", "d", "_", "f", "r", "e", "e">>, service.service_id, service.table_type))
      \o IssueIf(rt.type = "conditional" /\ rt.additional_cost = NoneVal,
            ValidationIssue("error",
                <<"C", "o", "n", "d", "i", "t", "i", "o", "n", "a", "l", " ", "r", "a", "t", "e", " ", "m", "i", "s", "s", "i", "n", "g", " ", "'", "a", "d", "d", "i", "t", "i", "o", "n", "a", "l", "_", "c", "o", "s", "t", "'", " ", "f", "o", "r", " ", "p", "l", "a", "n", " ", "'">> \o plan_name \o <<"'">>,
                <<"a", "d", "d", "i", "t", "i", "o", "n", "a", "l", "_", "c", "o", "s", "t">>, service.service_id, service.table_type))
      \o IssueIf(rt.type = "percentage" /\ DecimalAbovePowerOfTen(rt.value, 2),
            ValidationIssue("warning",
                <<"P", "e", "r", "c", "e", "n", "t", "a", "g", "e", " ", "r", "a", "t", "e", " ", "s", "e", "e", "m", "s", " ", "h", "i", "g", "h", " ", "(">> \o ValueStr(rt.value) \o <<"%", ")", " ", "f", "o", "r", " ", "p", "l", "a", "n", " ", "'">>
                    \o plan_name \o <<"'">>,
                <<"r", "a", "t", "e", "_", "v", "a", "l", "u", "e">>, service.service_id, service.table_type))

RECURSIVE RateIssuesFrom(_, _)
\* the rates loop of _validate_service from entry i on
RateIssuesFrom(service, i) ==
    IF i > Len(service.rates) THEN <<>>
    ELSE _validate_rate(service.rates[i].value, service.rates[i].key, service)
           \o RateIssuesFrom(service, i + 1)

_validate_service(service) ==
    IssueIf(service.description = <<>> \/ Strip(service.description) = <<>>,
            ValidationIssue("error", <<"S", "e", "r", "v", "i", "c", "e", " ", "d", "e", "s", "c", "r", "i", "p", "t", "i", "o", "n", " ", "i", "s", " ", "e", "m", "p", "t", "y">>, <<>>,
                            service.service_id, service.table_type))
      \o IssueIf(service.service_id = <<>>,
            ValidationIssue("error", <<"S", "e", "r", "v", "i", "c", "e", " ", "I", "D", " ", "i", "s", " ", "m", "i", "s", "s", "i", "n", "g">>, <<>>, <<>>, service.table_type))
      \o IssueIf(service.business_line = "",
            ValidationIssue("warning", <<"B", "u", "s", "i", "n", "e", "s", "s", " ", "l", "i", "n", "e", " ", "i", "s", " ", "n", "o", "t", " ", "c", "l", "a", "s", "s", "i", "f", "i", "e", "d">>, <<>>,
                            service.service_id, service.table_type))
      \o IssueIf(service.rates = <<>>,
            ValidationIssue("warning", <<"S", "e", "r", "v", "i", "c", "e", " ", "h", "a", "s", " ", "n", "o", " ", "r", "a", "t", "e", "s", " ", "d", "e", "f", "i", "n", "e", "d">>, <<>>,
                            service.service_id, service.table_type))
      \o RateIssuesFrom(service, 1)

RECURSIVE ServiceIssuesFrom(_, _)
ServiceIssuesFrom(services, i) ==
    IF i > Len(services) THEN <<>>
    ELSE _validate_service(services[i]) \o ServiceIssuesFrom(services, i + 1)

\* the key of the duplicate check
DescriptionKey(service) == <<service.table_type, Strip(Lower(service.description))>>

RECURSIVE DuplicateIssuesFrom(_, _)
DuplicateIssuesFrom(services, i) ==
    IF i > Len(services) THEN <<>>
    ELSE IssueIf(\E j \in 1..(i - 1) : DescriptionKey(services[j]) = DescriptionKey(services[i]),
                 ValidationIssue("warning",
                     <<"D", "u", "p", "l", "i", "c", "a", "t", "e", " ", "s", "e", "r", "v", "i", "c", "e", " ", "d", "e", "s", "c", "r", "i", "p", "t", "i", "o", "n", " ", "'">> \o services[i].description
                         \o <<"'", " ", "i", "n", " ">> \o services[i].table_type,
                     <<>>, services[i].service_id, services[i].table_type))
           \o DuplicateIssuesFrom(services, i + 1)

\* the first service of the table type of services[i]
FirstOfTableType(services, i) ==
    services[MinOfSet({j \in 1..i : services[j].table_type = services[i].table_type})]

RECURSIVE InconsistentIssuesFrom(_, _)
InconsistentIssuesFrom(services, i) ==
    IF i > Len(services) THEN <<>>
    ELSE IssueIf(FirstOfTableType(services, i).business_line # services[i].business_line,
                 ValidationIssue("warning",
                     <<"I", "n", "c", "o", "n", "s", "i", "s", "t", "e", "n", "t", " ", "b", "u", "s", "i", "n", "e", "s", "s", " ", "l", "i", "n", "e", " ", "f", "o", "r", " ", "t", "a", "b", "l", "e", " ">> \o services[i].table_type,
                     <<>>, services[i].service_id, services[i].table_type))
           \o InconsistentIssuesFrom(services, i + 1)

LargeTableCount == 50

RECURSIVE CountIssuesFrom(_, _)
\* the service_counts loop: the table types in the order of their first service
CountIssuesFrom(services, i) ==
    IF i > Len(services) THEN <<>>
    ELSE IssueIf(/\ \A j \in 1..(i - 1) : services[j].table_type # services[i].table_type
                 /\ Cardinality({j \in 1..Len(services) :
                                    services[j].table_type = services[i].table_type}) > LargeTableCount,
                 ValidationIssue("warning",
                     <<"L", "a", "r", "g", "e", " ", "n", "u", "m", "b", "e", "r", " ", "o", "f", " ", "s", "e", "r", "v", "i", "c", "e", "s", " ", "(">>
                         \o NatStr(Cardinality({j \in 1..Len(services) :
                                      services[j].table_type = services[i].table_type}))
                         \o <<")", " ", "i", "n", " ">> \o services[i].table_type,
                     <<>>, <<>>, <<>>))
           \o CountIssuesFrom(services, i + 1)

_validate_business_rules(document) ==
    DuplicateIssuesFrom(document.services, 1)
      \o InconsistentIssuesFrom(document.services, 1)
      \o CountIssuesFrom(document.services, 1)

\* the ValidationReport validate_document returns
validate_document(document) ==
    [document_id |-> document.document_id,
     issues |-> _validate_document_metadata(document)
                  \o ServiceIssuesFrom(document.services, 1)
                  \o _validate_business_rules(document)]

has_errors(rep) == \E i \in 1..Len(rep.issues) : rep.issues[i].level = "error"

get_errors(rep) ==
    SeqFilter(rep.issues, {i \in 1..Len(rep.issues) : rep.issues[i].level = "error"})

CriticalKeywords == {<<"m", "i", "s", "s", "i", "n", "g">>, <<"e", "m", "p", "t", "y">>, <<"i", "n", "v", "a", "l", "i", "d">>}

\* the critical issues among the errors errs
CriticalAmong(errs) ==
    [i \in 1..Len(SeqFilter(errs, {i \in 1..Len(errs) :
                                      ContainsAny(Lower(errs[i].message), CriticalKeywords)})) |->
        SeqFilter(errs, {j \in 1..Len(errs) :
                            ContainsAny(Lower(errs[j].message), CriticalKeywords)})[i].message]

\* get_critical_issues finding nothing critical
get_critical_issues_None(rep) == <<>>

get_critical_issues(rep) == CriticalAmong(get_errors(rep))

LevelCount(rep, levels) ==
    Cardinality({i \in 1..Len(rep.issues) : rep.issues[i].level \in levels})

\* ValidationReport.to_dict (without created_at)
ValidationReport_to_dict(rep) ==
    [document_id |-> rep.document_id,
     summary |-> [errors |-> LevelCount(rep, {"error"}),
                  warnings |-> LevelCount(rep, {"warning"}),
                  info |-> LevelCount(rep, {"info"})],
     processing_stats |-> <<>>,
     issues |-> rep.issues]

-----------------------------------------------------------------------------
(* ProcessDocumentUseCase.execute, with OpenpyxlExcelAdapter's             *)
(* process_excel_file unfolded into its steps                              *)

MaxBookSheets == 2

TarifasSheet ==
    [name |-> <<"T", "a", "r", "i", "f", "a", "s">>, kind |-> "worksheet",
     rows |-> <<<<StrVal(<<"D", "e", "s", "c", "r", "i", "p", "c", "i", "o", "n">>), StrVal(<<"P", "l", "a", "n", " ", "A">>)>>,
                <<StrVal(<<"R", "e", "t", "i", "r", "o">>), StrVal(<<"8", ".", "9", "9", "0">>)>>,
                <<StrVal(<<"C", "o", "n", "s", "u", "l", "t", "a">>), StrVal(<<"I", "l", "i", "m", "i", "t", "a", "d", "o">>)>>>>]

LimitesSheet ==
    [name |-> <<"L", "i", "m", "i", "t", "e", "s">>, kind |-> "worksheet",
     rows |-> <<<<StrVal(<<"S", "e", "r", "v", "i", "c", "i", "o">>), StrVal(<<"P", "l", "a", "n", " ", "A">>)>>,
                <<StrVal(<<"T", "o", "p", "e">>), IntVal(FALSE, <<"5", "0", "0", "0">>)>>>>]

NotasSheet ==
    [name |-> <<"N", "o", "t", "a", "s">>, kind |-> "worksheet",
     rows |-> <<<<StrVal(<<"N", "o", "t", "a">>)>>, <<StrVal(<<"V", "i", "g", "e", "n", "t", "e">>)>>>>]

TasasChart == [name |-> <<"T", "a", "s", "a", "s", " ", "g", "r", "a", "f", "i", "c", "o">>, kind |-> "chartsheet", rows |-> <<>>]

EmptyTarifasSheet ==
    [name |-> <<"T", "a", "r", "i", "f", "a", "s", " ", "2">>, kind |-> "worksheet", rows |-> <<<<NoneVal>>>>]

SheetPool == {TarifasSheet, LimitesSheet, NotasSheet, TasasChart, EmptyTarifasSheet}

\* workbooks of up to MaxBookSheets sheets with distinct names
Workbooks ==
    {wb \in UNION {[1..n -> SheetPool] : n \in 1..MaxBookSheets} :
        \A i, j \in 1..Len(wb) : i # j => wb[i].name # wb[j].name}

FileKeys == {<<"u", "p", "/", "t", "a", "r", "i", "f", "a", "s", ".", "x", "l", "s", "x">>, <<"u", "p", "/">>}

\* execute(bucket, file_key) with the content the storage holds under
\* file_key: a workbook, or bytes that are no workbook (no sheets)
ProcessInputs ==
    {[file_key |-> k, workbook |-> wb] : k \in FileKeys, wb \in Workbooks \cup {<<>>}}

DocumentIds == {<<"d", "-", "1">>}

InitProcess ==
    /\ pc = "start"
    /\ operand \in ProcessInputs
    /\ outcome = NoneVal
    /\ doc = NoneVal
    /\ sheet_no = 0
    /\ pending = <<>>
    /\ validation_report = NoneVal
    /\ save_calls = <<>>
    /\ PipelineUnused

\* raise ProcessingError(...) from cause
ProcessingError(cause) == [tag |-> "raise", exc |-> "ProcessingError", cause |-> cause]

sheetnames(workbook) == [i \in 1..Len(workbook) |-> workbook[i].name]

\* workbook[sheet_name]
SheetNamed(workbook, sheet_name) ==
    workbook[CHOOSE i \in 1..Len(workbook) : workbook[i].name = sheet_name]

\* file_repository.read_file: the storage answers or raises
ReadFile ==
    /\ pc = "start"
    /\ \E ok \in BOOLEAN :
          IF ok
          THEN pc' = "read" /\ outcome' = outcome
          ELSE pc' = "failed" /\ outcome' = ProcessingError("FileRepositoryError")
    /\ UNCHANGED <<operand, doc, sheet_no, pending, validation_report, save_calls>>
    /\ UNCHANGED pipelineVars

\* file_key.split('/')[-1]
FilenameOf(file_key) == Split(file_key, "/")[Len(Split(file_key, "/"))]

\* process_excel_file up to its sheet loop: load_workbook, the Document and
\* its processing metadata
LoadWorkbook ==
    /\ pc = "read"
    /\ IF operand.workbook = <<>>
       THEN /\ pc' = "failed"
            /\ outcome' = ProcessingError("ExcelAdapterError")
            /\ UNCHANGED <<doc, sheet_no>>
       ELSE /\ \E document_id \in DocumentIds :
                  doc' = [NewDocument(document_id,
                                      _determine_business_line(sheetnames(operand.workbook)),
                                      FilenameOf(operand.file_key))
                            EXCEPT !.processing_metadata =
                              <<[key |-> <<"s", "h", "e", "e", "t", "s", "_", "f", "o", "u", "n", "d">>, value |-> sheetnames(operand.workbook)],
                                [key |-> <<"p", "r", "o", "c", "e", "s", "s", "i", "n", "g", "_", "m", "e", "t", "h", "o", "d">>, value |-> <<"o", "p", "e", "n", "p", "y", "x", "l">>],
                                [key |-> <<"e", "x", "c", "e", "l", "_", "f", "o", "r", "m", "a", "t">>, value |-> <<"x", "l", "s", "x">>]>>]
            /\ sheet_no' = 1
            /\ pc' = "extracting"
            /\ outcome' = outcome
    /\ UNCHANGED <<operand, pending, validation_report, save_calls>>
    /\ UNCHANGED pipelineVars

RelevantSheets == _get_relevant_sheets(sheetnames(operand.workbook))

ChartsheetMessage == <<"'", "C", "h", "a", "r", "t", "s", "h", "e", "e", "t", "'", " ", "o", "b", "j", "e", "c", "t", " ", "h", "a", "s", " ", "n", "o", " ", "a", "t", "t", "r", "i", "b", "u", "t", "e", " ", "'", "m", "a", "x", "_", "r", "o", "w", "'">>

\* one turn of the sheet loop where a failing sheet ends the loop at once
SheetExtracted_Abort(sheet_name, extracted) ==
    IF extracted.tag = "raise"
    THEN /\ pc' = "failed"
         /\ UNCHANGED <<doc, sheet_no, pending>>
    ELSE IF extracted.value = <<>>
    THEN /\ sheet_no' = sheet_no + 1
         /\ UNCHANGED <<pc, pending, doc>>
    ELSE /\ pending' = extracted.value
         /\ pc' = "adding"
         /\ UNCHANGED <<doc, sheet_no>>

\* one turn of the sheet loop, extracted being what
\* _extract_services_from_sheet gave for the sheet named sheet_name
SheetExtracted(sheet_name, extracted) ==
    IF extracted.tag = "raise"
    THEN /\ doc' = [doc EXCEPT !.processing_metadata =
                        DictSet(@, <<"e", "r", "r", "o", "r", "_">> \o sheet_name, ChartsheetMessage)]
         /\ sheet_no' = sheet_no + 1
         /\ UNCHANGED <<pc, pending>>
    ELSE IF extracted.value = <<>>
    THEN /\ sheet_no' = sheet_no + 1
         /\ UNCHANGED <<pc, pending, doc>>
    ELSE /\ pending' = extracted.value
         /\ pc' = "adding"
         /\ UNCHANGED <<doc, sheet_no>>

\* the sheet loop: the services of the next relevant sheet are extracted; a
\* sheet that fails is recorded in the metadata and skipped
ExtractSheet ==
    /\ pc = "extracting"
    /\ sheet_no <= Len(RelevantSheets)
    /\ SheetExtracted(RelevantSheets[sheet_no],
                      _extract_services_from_sheet(
                          SheetNamed(operand.workbook, RelevantSheets[sheet_no]),
                          RelevantSheets[sheet_no], doc.document_id))
    /\ UNCHANGED <<operand, outcome, validation_report, save_calls>>
    /\ UNCHANGED pipelineVars

\* for service in services: document.add_service(service)
AddService ==
    /\ pc = "adding"
    /\ doc' = add_service(doc, Head(pending))
    /\ pending' = Tail(pending)
    /\ IF Tail(pending) = <<>>
       THEN pc' = "extracting" /\ sheet_no' = sheet_no + 1
       ELSE UNCHANGED <<pc, sheet_no>>
    /\ UNCHANGED <<operand, outcome, validation_report, save_calls>>
    /\ UNCHANGED pipelineVars

\* validate_document, the report stored in the metadata, the critical check
ValidateDocument ==
    /\ pc = "extracting"
    /\ sheet_no > Len(RelevantSheets)
    /\ validation_report' = validate_document(doc)
    /\ doc' = [doc EXCEPT !.processing_metadata =
                  DictSet(@, <<"v", "a", "l", "i", "d", "a", "t", "i", "o", "n", "_", "r", "e", "p", "o", "r", "t">>,
                          ValidationReport_to_dict(validate_document(doc)))]
    /\ IF /\ has_errors(validate_document(doc))
          /\ get_critical_issues(validate_document(doc)) # <<>>
       THEN pc' = "failed" /\ outcome' = ProcessingError("ProcessingError")
       ELSE pc' = "validated" /\ outcome' = outcome
    /\ UNCHANGED <<operand, sheet_no, pending, save_calls>>
    /\ UNCHANGED pipelineVars

\* document_repository.save_document: the repository stores or raises
SaveDocument ==
    /\ pc = "validated"
    /\ save_calls' = Append(save_calls, doc)
    /\ \E ok \in BOOLEAN :
          IF ok
          THEN pc' = "done" /\ outcome' = Return(doc)
          ELSE pc' = "failed" /\ outcome' = ProcessingError("DocumentRepositoryError")
    /\ UNCHANGED <<operand, doc, sheet_no, pending, validation_report>>
    /\ UNCHANGED pipelineVars

NextProcess ==
    \/ ReadFile
    \/ LoadWorkbook
    \/ ExtractSheet
    \/ AddService
    \/ ValidateDocument
    \/ SaveDocument

SpecProcess == InitProcess /\ [][NextProcess]_vars

-----------------------------------------------------------------------------
(* Claims about ProcessDocumentUseCase.execute (checked under SpecProcess) *)

\* the report holds an error whose message names something missing, empty
\* or invalid
HasCriticalError(rep) ==
    \E i \in 1..Len(rep.issues) :
        /\ rep.issues[i].level = "error"
        /\ \E word \in CriticalKeywords : Contains(Lower(rep.issues[i].message), word)

\* C15: a document is never partially persisted: save_document is called at
\* most once, only when the sheet loop is over and validate_document has run
\* on the document handed over, never when the report holds a critical
\* error; a failed run leaves the caller with a ProcessingError.
C15_NeverPartiallyPersisted ==
    /\ Len(save_calls) <= 1
    /\ save_calls # <<>> =>
          /\ sheet_no > Len(RelevantSheets)
          /\ pending = <<>>
          /\ validation_report = validate_document(save_calls[1])
          /\ ~HasCriticalError(validation_report)
          /\ save_calls[1] = doc
    /\ pc = "failed" => (outcome.tag = "raise" /\ outcome.exc = "ProcessingError")
    /\ outcome # NoneVal => pc \in {"failed", "done"}
    /\ pc = "done" => (outcome = Return(doc) /\ Len(save_calls) = 1)

\* C15 witness: a document with the services of two sheets was validated
\* and saved once
C15_Witness ==
    /\ pc = "done"
    /\ Len(save_calls) = 1
    /\ Len(save_calls[1].services) = 3
    /\ validation_report # NoneVal

\* position of the sheet a service came from in the workbook
SheetPosition(workbook, service) ==
    CHOOSE i \in 1..Len(workbook) : workbook[i].name = service.source_position.sheet

\* a comes before b: an earlier sheet, or the same sheet and a row above
ComesBefore(workbook, a, b) ==
    \/ SheetPosition(workbook, a) < SheetPosition(workbook, b)
    \/ /\ SheetPosition(workbook, a) = SheetPosition(workbook, b)
       /\ a.source_position.row < b.source_position.row

RECURSIVE SumOf(_, _)
\* the sum of f over the keys
SumOf(f, keys) ==
    IF keys = {} THEN 0
    ELSE f[CHOOSE k \in keys : TRUE] + SumOf(f, keys \ {CHOOSE k \in keys : TRUE})

ServicesWellFormed(workbook, document) ==
    /\ \A i, j \in 1..Len(document.services) :
          i < j => ComesBefore(workbook, document.services[i], document.services[j])
    /\ \A i \in 1..Len(document.services) :
          document.services[i].document_id = document.document_id
    /\ SumOf(get_service_count_by_table_type(document),
             DOMAIN get_service_count_by_table_type(document)) = get_service_count(document)

\* C16: Document.services is append-only and order-preserving: each step
\* leaves the list alone or adds one service at its end; the services stand
\* in workbook order of their sheets and top to bottom within a sheet; every
\* service carries the document's document_id; the per-table-type counts
\* sum to get_service_count().
C16_AppendOnlyInOrder ==
    /\ [](doc # NoneVal => ServicesWellFormed(operand.workbook, doc))
    /\ [][(doc # NoneVal /\ doc' # NoneVal) =>
            \/ doc'.services = doc.services
            \/ /\ Len(doc'.services) = Len(doc.services) + 1
               /\ SubSeq(doc'.services, 1, Len(doc.services)) = doc.services]_vars

\* C16 witness: the services of two sheets have been added, three in all
C16_Witness ==
    /\ doc # NoneVal
    /\ Len(doc.services) = 3
    /\ doc.services[1].source_position.sheet # doc.services[3].source_position.sheet
    /\ doc.services[1].source_position.row < doc.services[2].source_position.row

-----------------------------------------------------------------------------
(* Column building: a section of a header row and three data rows arrives  *)
(* and _create_table_from_section makes a table of it                      *)

\* the labels the frame's columns carry
SectionLabels(w) == [j \in 1..w |-> <<"c">> \o NatStr(j - 1)]

InitColumns ==
    /\ operand \in TableSections
    /\ outcome = Unused
    /\ pc = "ready"
    /\ PipelineUnused
    /\ ProcessUnused

CreateTableFromSection ==
    /\ pc = "ready"
    /\ outcome' = _create_table_from_section(operand, SectionLabels(Len(operand[1])),
                                             SheetName, 0, 0, Len(operand))
    /\ pc' = "created"
    /\ UNCHANGED operand
    /\ UNCHANGED <<pipelineVars, processVars>>

NextColumns == CreateTableFromSection

SpecColumns == InitColumns /\ [][NextColumns]_vars

\* column j of the section holds data below the header
ColumnHasData(rws, j) == \E r \in 2..Len(rws) : NotNa(rws[r][j])

\* the columns to keep among the first width ones: the header text, or
\* column_<n> for a blank header above data; nothing for a blank header
\* above no data
RECURSIVE KeptColumns(_, _, _)
KeptColumns(rws, width, j) ==
    IF j > width THEN <<>>
    ELSE IF HasText(rws[1][j])
    THEN <<Strip(PyStr(rws[1][j]))>> \o KeptColumns(rws, width, j + 1)
    ELSE IF ColumnHasData(rws, j)
    THEN <<<<"c", "o", "l", "u", "m", "n", "_">> \o NatStr(j - 1)>> \o KeptColumns(rws, width, j + 1)
    ELSE KeptColumns(rws, width, j + 1)

\* C21: of the columns left by the boundary detection, a column with a
\* non-blank header is kept under that text, a column with a blank header
\* above data is kept as column_<n>, and only a column with a blank header
\* and no data is excluded, also when headed columns follow it.
C21_ColumnsKept ==
    pc = "created" =>
        /\ outcome # NoTable
        /\ outcome.end_col = Len(KeptColumns(operand, _detect_table_boundaries(operand), 1))
        /\ \A r \in 1..Len(outcome.data) :
              DOMAIN outcome.data[r] =
                 Range(_make_columns_unique(
                         KeptColumns(operand, _detect_table_boundaries(operand), 1)))

-----------------------------------------------------------------------------
(* Keyword classification of a table without a structural match            *)

\* a description cell that holds nothing: None, NaN or the empty string
BlankDescription(v) == v.kind \in {"none", "nan"} \/ (v.kind = "str" /\ v.s = <<>>)

\* the first n non-blank DESCRIPCIÓN cells of the rows, lower-cased
RECURSIVE FirstDescriptions(_, _)
FirstDescriptions(data, n) ==
    IF data = <<>> \/ n = 0 THEN <<>>
    ELSE IF BlankDescription(RowGet(data[1], DescriptionField))
    THEN FirstDescriptions(Tail(data), n)
    ELSE <<Lower(RowGet(data[1], DescriptionField).s)>> \o FirstDescriptions(Tail(data), n - 1)

HasStructuralMatch == HasAllPlanHeaders \/ ValorSinIva \in HeaderTexts

\* C22: a table with no structural match is classified by the first entry of
\* table_classification (transfers, then withdrawals) whose patterns and
\* keywords both match the lower-cased table name followed by the first three
\* non-blank description cells, "unknown" when none does; the call never
\* raises when description cells are blank.
C22_KeywordClassification ==
    (pc = "classified" /\ ~HasStructuralMatch) =>
        ttype = Return(FirstKeywordMatch(Lower(table.table_name) \o <<" ">>
                           \o JoinSpace(FirstDescriptions(table.data, 3)), 1))
-----------------------------------------------------------------------------
(* Frequency cells: a row's Frecuencia cell is normalised and the service  *)
(* that carries the result is validated by the pipeline                    *)

\* texts a Frecuencia cell may hold besides the literals of the mapping
OtherFrequencyTexts ==
    {<<"D", "i", "a", "r", "i", "o">>, <<"T", "r", "i", "m", "e", "s", "t", "r", "a", "l">>, <<"M", "E", "N", "S", "U", "A", "L">>, <<"a", "n", "u", "a", "l">>, <<"a", " ", "d", "e", "m", "a", "n", "d", "a">>,
     <<"P", "o", "r", " ", "T", "r", "a", "n", "s", "a", "c", "c", "i", "ó", "n">>, <<>>}

FrequencyLiterals == {FrequencyMapping[i].from : i \in 1..Len(FrequencyMapping)}

FrequencyCells ==
    {NoneVal, NaNVal, IntVal(FALSE, <<"7">>)}
    \cup {StrVal(l \o t \o r) :
            l \in Pads, r \in Pads, t \in FrequencyLiterals \cup OtherFrequencyTexts}

InitFrequency ==
    /\ operand \in FrequencyCells
    /\ outcome = Unused
    /\ pc = "ready"
    /\ PipelineUnused
    /\ ProcessUnused

NormalizeFrequency ==
    /\ pc = "ready"
    /\ outcome' = normalize_frequency(operand)
    /\ pc' = "normalized"
    /\ UNCHANGED operand
    /\ UNCHANGED <<pipelineVars, processVars>>

\* a service record that carries the frequency
FrequencyService(frequency) ==
    [service_id |-> <<"w", "i", "t", "h", "d", "r", "a", "w", "a", "l">>, description |-> <<"R", "e", "t", "i", "r", "o">>,
     applies_tax |-> FALSE, frequency |-> frequency,
     rate |-> [type |-> "not_applicable"]]

ValidateFrequency ==
    /\ pc = "normalized"
    /\ outcome' = [frequency |-> outcome,
                   errors |-> ETL_validate_service(FrequencyService(outcome), 0)]
    /\ pc' = "validated"
    /\ UNCHANGED operand
    /\ UNCHANGED <<pipelineVars, processVars>>

NextFrequency == NormalizeFrequency \/ ValidateFrequency

SpecFrequency == InitFrequency /\ [][NextFrequency]_vars

\* a frequency cell that holds nothing: None, the empty string, or NaN
AbsentFrequency(v) == v.kind \in {"none", "nan"} \/ (v.kind = "str" /\ v.s = <<>>)

\* C23: normalize_frequency gives "unknown" for an absent cell (None, empty
\* string, NaN), the mapped value for a text that is a literal of the
\* frequency mapping, and the lower-cased text for any other text.
C23_NormalizeFrequency ==
    pc = "normalized" =>
        /\ AbsentFrequency(operand) => outcome = <<"u", "n", "k", "n", "o", "w", "n">>
        /\ (operand.kind = "str" /\ operand.s # <<>>) =>
              outcome = IF Strip(operand.s) \in FrequencyLiterals
                        THEN FrequencyMapping[CHOOSE i \in 1..Len(FrequencyMapping) :
                                 FrequencyMapping[i].from = Strip(operand.s)].to
                        ELSE Lower(Strip(operand.s))

\* C30: the frequency made from a literal of the frequency mapping, or from
\* an absent cell, is one of the validator's valid_frequencies, and the
\* service that carries it gets no invalid-frequency error.
C30_MappedFrequenciesValid ==
    (/\ pc = "validated"
     /\ \/ AbsentFrequency(operand)
        \/ operand.kind = "str" /\ operand.s \in FrequencyLiterals) =>
        /\ outcome.frequency \in ValidFrequencies
        /\ \A k \in 1..Len(outcome.errors) : outcome.errors[k].type # "invalid_frequency"
-----------------------------------------------------------------------------
(* DynamoDBWriter: the transformed document, its validation report and the *)
(* file metadata are written as items of one table. The table is a         *)
(* sequence of items in order of first insertion; put_item replaces the    *)
(* item that has the same (pk, sk). created_at and ttl (clock) are left    *)
(* out.                                                                    *)

put_item(items, item) ==
    IF \E i \in 1..Len(items) : items[i].pk = item.pk /\ items[i].sk = item.sk
    THEN [i \in 1..Len(items) |->
            IF items[i].pk = item.pk /\ items[i].sk = item.sk THEN item ELSE items[i]]
    ELSE Append(items, item)

\* a table type as text
TableTypeText(table_type) ==
    CASE table_type = "mobile_plans" -> <<"m", "o", "b", "i", "l", "e", "_", "p", "l", "a", "n", "s">>
      [] table_type = "transfers" -> <<"t", "r", "a", "n", "s", "f", "e", "r", "s">>
      [] table_type = "withdrawals" -> <<"w", "i", "t", "h", "d", "r", "a", "w", "a", "l", "s">>
      [] table_type = "traditional_services" -> <<"t", "r", "a", "d", "i", "t", "i", "o", "n", "a", "l", "_", "s", "e", "r", "v", "i", "c", "e", "s">>

\* _convert_floats_to_decimal on a cell value: Decimal(str(obj)) for a float
ConvertValue(v) == IF v.kind = "num" /\ v.float THEN DecimalOf(PyStr(v)) ELSE v

ConvertRate(r) == [k \in DOMAIN r |-> IF k = "type" THEN r[k] ELSE ConvertValue(r[k])]

\* _convert_floats_to_decimal on the attributes taken from a service
_convert_floats_to_decimal(attrs) ==
    [k \in DOMAIN attrs |->
        IF k = "rate" THEN ConvertRate(attrs[k])
        ELSE IF k = "rates" THEN [p \in DOMAIN attrs[k] |-> ConvertRate(attrs[k][p])]
        ELSE attrs[k]]

\* the attributes _store_services copies from a service (None values removed)
ServiceItemFields ==
    {"service_id", "description", "applies_tax", "frequency", "category",
     "rates", "rate", "disclaimer"}

ServiceItem(document_id, business_line, table_type, table_data, service) ==
    [pk |-> <<"d", "o", "c", "u", "m", "e", "n", "t", "#">> \o document_id,
     sk |-> <<"s", "e", "r", "v", "i", "c", "e", "#">>
              \o (IF "service_id" \in DOMAIN service THEN service.service_id ELSE <<"N", "o", "n", "e">>)
              \o <<"#">> \o TableTypeText(table_type),
     document_id |-> document_id,
     business_line |-> business_line,
     table_type |-> table_type,
     source_position |-> table_data.source_position,
     attributes |-> _convert_floats_to_decimal(
                        [k \in DOMAIN service \cap ServiceItemFields |-> service[k]])]

\* the inner loop of _store_services from service i on
RECURSIVE StoreTableServices(_, _, _, _, _, _)
StoreTableServices(items, document_id, business_line, table_type, table_data, i) ==
    IF i > Len(table_data.services) THEN items
    ELSE StoreTableServices(
             put_item(items, ServiceItem(document_id, business_line, table_type,
                                         table_data, table_data.services[i])),
             document_id, business_line, table_type, table_data, i + 1)

\* the outer loop of _store_services from table t on
RECURSIVE StoreTables(_, _, _, _, _)
StoreTables(items, document_id, business_line, tabs, t) ==
    IF t > Len(tabs) THEN items
    ELSE StoreTables(
             StoreTableServices(items, document_id, business_line,
                                tabs[t].key, tabs[t].value, 1),
             document_id, business_line, tabs, t + 1)

_store_services(items, document_id, transformed_data) ==
    StoreTables(items, document_id, transformed_data.business_line,
                transformed_data.tables, 1)

_store_metadata(items, document_id, transformed_data, file_metadata) ==
    put_item(items,
        [pk |-> <<"d", "o", "c", "u", "m", "e", "n", "t", "#">> \o document_id,
         sk |-> <<"m", "e", "t", "a", "d", "a", "t", "a">>,
         document_id |-> document_id,
         business_line |-> transformed_data.business_line,
         document_type |-> transformed_data.document_type,
         source_sheets |-> transformed_data.source_sheets,
         source_file |-> file_metadata.source_file])

\* the pipeline's report has no "summary", so the totals default to 0
_store_validation_report(items, document_id, validation_rep) ==
    put_item(items,
        [pk |-> <<"d", "o", "c", "u", "m", "e", "n", "t", "#">> \o document_id,
         sk |-> <<"v", "a", "l", "i", "d", "a", "t", "i", "o", "n">>,
         document_id |-> document_id,
         validation_status |-> validation_rep.status,
         total_errors |-> 0,
         total_warnings |-> 0,
         errors |-> validation_rep.errors,
         warnings |-> validation_rep.warnings])

store_document(items, document_id, transformed_data, validation_rep, file_metadata) ==
    _store_services(
        _store_validation_report(
            _store_metadata(items, document_id, transformed_data, file_metadata),
            document_id, validation_rep),
        document_id, transformed_data)

-----------------------------------------------------------------------------
(* Storing a processed sheet: the tables of a sheet are extracted,         *)
(* transformed, validated and written to the (empty) DynamoDB table        *)

MaxStoreRows == 4

OficinaRow ==
    <<StrVal(<<"R", "e", "t", "i", "r", "o", " ", "e", "n", " ", "o", "f", "i", "c", "i", "n", "a">>),
      IntVal(FALSE, <<"9">>),
      IntVal(FALSE, <<"9">>),
      FloatVal(FALSE, <<"8">>, <<"5">>),
      StrVal(<<"N", "o">>),
      StrVal(<<"M", "e", "n", "s", "u", "a", "l">>)>>

TransferRow ==
    <<StrVal(<<"T", "r", "a", "n", "s", "f", "e", "r", "e", "n", "c", "i", "a", " ", "A", "C", "H">>),
      IntVal(FALSE, <<"7">>),
      IntVal(FALSE, <<"7">>),
      IntVal(FALSE, <<"7">>),
      StrVal(<<"N", "o">>),
      StrVal(<<"M", "e", "n", "s", "u", "a", "l">>)>>

StoreBodyRows == {AperturaRow, RetiroRow, OficinaRow, TransferRow}

StoreSheets ==
    {<<TitleRow, ConfigHeader>> \o body :
        body \in UNION {[1..k -> StoreBodyRows] : k \in 1..MaxStoreRows}}

FileMetadata == [source_file |-> <<"u", "p", "/", "t", "a", "r", "i", "f", "a", "s", ".", "x", "l", "s", "x">>]

InitStore ==
    /\ sheet \in StoreSheets
    /\ pc = "ready"
    /\ tables = Unused /\ transformed = Unused /\ report = Unused
    /\ DomainUnused
    /\ cell = Unused /\ rate = Unused /\ num = Unused /\ shape = Unused
    /\ table = Unused /\ ttype = Unused /\ vdata = Unused

\* DynamoDBWriter.store_document on an empty table; uuid4 gives the id
StoreDocument ==
    /\ pc = "validated"
    /\ \E document_id \in DocumentIds :
          outcome' = store_document(<<>>, document_id, transformed.value, report,
                                    FileMetadata)
    /\ pc' = "stored"
    /\ UNCHANGED <<operand, processVars>>
    /\ UNCHANGED pipelineVars

NextStore == ExtractTables \/ TransformData \/ ValidateData \/ StoreDocument

SpecStore == InitStore /\ [][NextStore]_vars

\* the stored items whose sort key is that of a service
StoredServiceItems(items) ==
    SeqFilter(items, {i \in 1..Len(items) : OccursAt(items[i].sk, 1, <<"s", "e", "r", "v", "i", "c", "e", "#">>)})

\* C24: services of different rows that get the same service_id stay distinct
\* records: all of them are in the transformed output, and after
\* store_document the table holds as many service items as the document has
\* services.
C24_NoServiceOverwritten ==
    pc = "stored" =>
        /\ \A i \in 1..Len(tables[1].value) :
              \A r \in 1..Len(tables[1].value[i].data) :
                 \E t \in 1..Len(transformed.value.tables) :
                    \E service \in Range(transformed.value.tables[t].value.services) :
                       StrVal(service.description) = tables[1].value[i].data[r][DescripcionKey]
        /\ Len(StoredServiceItems(outcome)) = TotalServices(transformed.value.tables)
-----------------------------------------------------------------------------
(* Per-service checks of the two validators                                *)

\* the services of the document under validation
ValidatedServices ==
    IF vdata.kind = "dict" /\ "tables" \in DOMAIN vdata.d
    THEN UNION {Range(vdata.d.tables[t].value.services) : t \in 1..Len(vdata.d.tables)}
    ELSE {}

HasLongDescription(service) ==
    "description" \in DOMAIN service /\ Len(service.description) > MaxDescriptionLength

\* the issues of a report, errors and warnings alike
ReportedIssues == Range(report.errors) \cup Range(report.warnings)

\* C25: in both validators the per-service checks are independent: a missing
\* required field, an invalid frequency and a description longer than 200
\* characters each give their own issue, and the long description is an
\* error, so a document with such a service has status failed.
C25_LongDescriptionIsError ==
    pc \in {"validator_reported", "pipeline_reported"} =>
        \A service \in ValidatedServices :
            /\ \A k \in 1..Len(RequiredFields) :
                  RequiredFields[k] \notin DOMAIN service =>
                     \E issue \in ReportedIssues :
                        issue.type = "missing_required_field" /\ issue.field = RequiredFields[k]
            /\ ("frequency" \in DOMAIN service /\ service.frequency \notin ValidFrequencies) =>
                  \E issue \in ReportedIssues : issue.type = "invalid_frequency"
            /\ HasLongDescription(service) =>
                  /\ \E issue \in Range(report.errors) : issue.type = "description_too_long"
                  /\ report.status = "failed"
-----------------------------------------------------------------------------
(* The sheet loop of process_excel_file                                    *)

\* what _extract_services_from_sheet gives for the i-th relevant sheet
ExtractedFrom(i) ==
    _extract_services_from_sheet(SheetNamed(operand.workbook, RelevantSheets[i]),
                                 RelevantSheets[i], doc.document_id)

\* the services of the relevant sheets up to the k-th, failing sheets skipped
RECURSIVE ServicesUpTo(_)
ServicesUpTo(k) ==
    IF k = 0 THEN <<>>
    ELSE ServicesUpTo(k - 1)
           \o (IF ExtractedFrom(k).tag = "raise" THEN <<>> ELSE ExtractedFrom(k).value)

MetadataKeys == {doc.processing_metadata[i].key : i \in 1..Len(doc.processing_metadata)}

ErrorKey(sheet_name) == <<"e", "r", "r", "o", "r", "_">> \o sheet_name

\* the sheet loop is over
SheetsDone ==
    /\ doc # NoneVal
    /\ \/ pc \in {"validated", "done", "failed"}
       \/ pc = "extracting" /\ sheet_no > Len(RelevantSheets)

\* C26: a sheet whose extraction raises is skipped without aborting the
\* document: once the sheet loop is over the document holds, in order, the
\* services of every relevant sheet that did not fail and none of a sheet
\* that failed, and processing_metadata has the entry error_<sheet_name>,
\* with the failure's message, exactly for the sheets that failed.
C26_FailingSheetSkipped ==
    SheetsDone =>
        /\ doc.services = ServicesUpTo(Len(RelevantSheets))
        /\ \A i \in 1..Len(RelevantSheets) :
              IF ExtractedFrom(i).tag = "raise"
              THEN \E m \in 1..Len(doc.processing_metadata) :
                      /\ doc.processing_metadata[m].key = ErrorKey(RelevantSheets[i])
                      /\ doc.processing_metadata[m].value = ChartsheetMessage
              ELSE ErrorKey(RelevantSheets[i]) \notin MetadataKeys

\* C26 witness: the first relevant sheet failed and is recorded, and the
\* sheet after it still gave its services
C26_Witness ==
    /\ SheetsDone
    /\ Len(RelevantSheets) = 2
    /\ ExtractedFrom(1).tag = "raise"
    /\ ErrorKey(RelevantSheets[1]) \in MetadataKeys
    /\ doc.services # <<>>
    /\ doc.services = ExtractedFrom(2).value
-----------------------------------------------------------------------------
(* AccountsExtractionStrategy                                              *)
(* A row dict is an ordered dict: a sequence of [key, value] entries. The  *)
(* patterns are literals, so re.search is a substring test.                *)

SheetTypePatterns ==
    <<[type |-> <<"t", "a", "r", "i", "f", "a", "s">>, patterns |-> {<<"t", "a", "r", "i", "f", "a">>, <<"f", "e", "e">>, <<"c", "o", "s", "t">>, <<"c", "o", "s", "t", "o">>}],
      [type |-> <<"l", "i", "m", "i", "t", "e", "s">>, patterns |-> {<<"l", "i", "m", "i", "t", "e">>, <<"l", "i", "m", "i", "t">>, <<"m", "a", "x">>, <<"t", "o", "p", "e">>}],
      [type |-> <<"t", "a", "s", "a", "s">>, patterns |-> {<<"t", "a", "s", "a">>, <<"r", "a", "t", "e">>, <<"i", "n", "t", "e", "r", "e", "s", "t">>, <<"i", "n", "t", "e", "r", "e", "s">>}],
      [type |-> <<"s", "e", "r", "v", "i", "c", "i", "o", "s">>, patterns |-> {<<"s", "e", "r", "v", "i", "c", "i", "o">>, <<"s", "e", "r", "v", "i", "c", "e">>}]>>

StrategyDescriptionPatterns ==
    {<<"d", "e", "s", "c", "r", "i", "p", "c", "i", "o", "n">>, <<"c", "o", "n", "c", "e", "p", "t", "o">>, <<"s", "e", "r", "v", "i", "c", "i", "o">>, <<"d", "e", "t", "a", "l", "l", "e">>,
     <<"d", "e", "s", "c", "r", "i", "p", "t", "i", "o", "n">>, <<"c", "o", "n", "c", "e", "p", "t">>, <<"s", "e", "r", "v", "i", "c", "e">>, <<"d", "e", "t", "a", "i", "l">>}

MetadataPatterns == {<<"i", "d">>, <<"t", "i", "p", "o">>, <<"c", "a", "t", "e", "g", "o", "r", "i", "a">>, <<"f", "e", "c", "h", "a">>}

PlanMappings ==
    <<[pattern |-> <<"g", "_", "z", "e", "r", "o">>, name |-> <<"p", "l", "a", "n", "_", "g", "_", "z", "e", "r", "o">>],
      [pattern |-> <<"p", "l", "a", "n", "_", "z", "e", "r", "o">>, name |-> <<"p", "l", "a", "n", "_", "g", "_", "z", "e", "r", "o">>],
      [pattern |-> <<"p", "u", "l", "s">>, name |-> <<"p", "l", "a", "n", "_", "p", "u", "l", "s">>],
      [pattern |-> <<"p", "r", "e", "m", "i", "e", "r">>, name |-> <<"p", "l", "a", "n", "_", "p", "r", "e", "m", "i", "e", "r">>],
      [pattern |-> <<"t", "r", "a", "d", "i", "c", "i", "o", "n", "a", "l">>, name |-> <<"p", "l", "a", "n", "_", "t", "r", "a", "d", "i", "c", "i", "o", "n", "a", "l">>],
      [pattern |-> <<"m", "o", "v", "i", "l">>, name |-> <<"c", "u", "e", "n", "t", "a", "_", "m", "o", "v", "i", "l">>],
      [pattern |-> <<"a", "p", "p">>, name |-> <<"c", "u", "e", "n", "t", "a", "_", "a", "p", "p">>]>>

RECURSIVE SheetTypeFrom(_, _)
SheetTypeFrom(sheet_lower, i) ==
    IF i > Len(SheetTypePatterns) THEN <<"o", "t", "h", "e", "r">>
    ELSE IF ContainsAny(sheet_lower, SheetTypePatterns[i].patterns)
    THEN SheetTypePatterns[i].type
    ELSE SheetTypeFrom(sheet_lower, i + 1)

classify_sheet_type(sheet_name) == SheetTypeFrom(Lower(sheet_name), 1)

\* the try block of _is_numeric_string: parse_colombian_number catches
\* ValueError, TypeError and ArithmeticError itself and returns None
TryParse(value) == Return(parse_colombian_number(value))

_is_numeric_string(value) == TryParse(value).tag = "return"

\* value and str(value).strip()
HasStrippedText(v) == Truthy(v) /\ Strip(PyStr(v)) # <<>>

\* the entries under a header that holds a description pattern, with text
DescriptionHits(row_dict) ==
    {i \in 1..Len(row_dict) :
        ContainsAny(row_dict[i].key, StrategyDescriptionPatterns)
        /\ HasStrippedText(row_dict[i].value)}

\* the entries the fallback loop of _find_description_in_row accepts
FallbackHits(row_dict) ==
    {i \in 1..Len(row_dict) :
        HasStrippedText(row_dict[i].value) /\ ~_is_numeric_string(PyStr(row_dict[i].value))}

_find_description_in_row(row_dict) ==
    IF DescriptionHits(row_dict) # {}
    THEN StrVal(Strip(PyStr(row_dict[MinOfSet(DescriptionHits(row_dict))].value)))
    ELSE IF FallbackHits(row_dict) # {}
    THEN StrVal(Strip(PyStr(row_dict[MinOfSet(FallbackHits(row_dict))].value)))
    ELSE NoneVal

\* the first header that holds a description pattern, or None
_get_description_header(row_dict) ==
    IF \E i \in 1..Len(row_dict) : ContainsAny(row_dict[i].key, StrategyDescriptionPatterns)
    THEN StrVal(row_dict[MinOfSet({i \in 1..Len(row_dict) :
                    ContainsAny(row_dict[i].key, StrategyDescriptionPatterns)})].key)
    ELSE NoneVal

_is_rate_column(header) ==
    /\ ~ContainsAny(header, StrategyDescriptionPatterns)
    /\ ~ContainsAny(header, MetadataPatterns)

\* v < 100, v a Decimal
DecimalBelowHundred(v) == IsNegative(v) \/ Len(StripLeadingZeros(v.int)) <= 2

\* parsed_value and parsed_value > 10000
LargeAmount(parsed_value) ==
    /\ parsed_value # NoneVal
    /\ ~DecimalIsZero(parsed_value)
    /\ DecimalAbovePowerOfTen(parsed_value, 4)

\* parsed_value and parsed_value < 100
SmallAmount(parsed_value) ==
    /\ parsed_value # NoneVal
    /\ ~DecimalIsZero(parsed_value)
    /\ DecimalBelowHundred(parsed_value)

_create_rate_for_accounts(value, column_name, sheet_type) ==
    IF sheet_type = <<"l", "i", "m", "i", "t", "e", "s">> /\ LargeAmount(parse_colombian_number(PyStr(value)))
    THEN Rate_fixed(parse_colombian_number(PyStr(value)), Cop)
    ELSE IF /\ (sheet_type = <<"t", "a", "s", "a", "s">> \/ Contains(Lower(column_name), <<"t", "a", "s", "a">>))
            /\ SmallAmount(parse_colombian_number(PyStr(value)))
    THEN Rate_percentage(parse_colombian_number(PyStr(value)))
    ELSE create_rate_from_value(value, column_name)

RECURSIVE PlanNameFrom(_, _)
PlanNameFrom(normalized, i) ==
    IF i > Len(PlanMappings) THEN normalized
    ELSE IF Contains(normalized, PlanMappings[i].pattern) THEN PlanMappings[i].name
    ELSE PlanNameFrom(normalized, i + 1)

\* AccountsExtractionStrategy._normalize_plan_name
Accounts_normalize_plan_name(header) ==
    PlanNameFrom(
        WhitespaceRunsTo(Strip([i \in 1..Len(header) |->
                                  IF IsWordChar(Lower(header)[i]) \/ Lower(header)[i] \in WhitespaceChars
                                  THEN Lower(header)[i] ELSE " "]),
                         <<"_">>),
        1)

\* service.add_rate unless making the rate raised
AccountsRowRate(rates, header, rt) ==
    IF rt.tag = "raise" THEN rates
    ELSE add_rate(rates, Accounts_normalize_plan_name(header), rt.value)

\* the rates loop of extract_service_from_row from entry i on
RECURSIVE AccountsRowRates(_, _, _, _)
AccountsRowRates(rates, row_dict, sheet_type, i) ==
    IF i > Len(row_dict) THEN rates
    ELSE IF /\ _is_rate_column(row_dict[i].key)
            /\ row_dict[i].value # NoneVal
            /\ Strip(PyStr(row_dict[i].value)) # <<>>
            /\ StrVal(row_dict[i].key) # _get_description_header(row_dict)
    THEN AccountsRowRates(
             AccountsRowRate(rates, row_dict[i].key,
                 _create_rate_for_accounts(row_dict[i].value, row_dict[i].key, sheet_type)),
             row_dict, sheet_type, i + 1)
    ELSE AccountsRowRates(rates, row_dict, sheet_type, i + 1)

\* row_dict[header] = row_data[i] if i < len(row_data) else None
RECURSIVE RowDict(_, _, _, _)
RowDict(headers, row_data, i, row_dict) ==
    IF i > Len(headers) THEN row_dict
    ELSE RowDict(headers, row_data, i + 1,
                 DictSet(row_dict, headers[i],
                         IF i <= Len(row_data) THEN row_data[i] ELSE NoneVal))

\* extract_service_from_row once the row dict and the description are known
AccountsServiceOf(row_dict, description, headers, sheet_name, row_index, document_id) ==
    IF description = NoneVal \/ Strip(description.s) = <<>> THEN NoneVal
    ELSE [service_id |-> processor_generate_service_id(description.s,
                              <<"a", "c", "c", "o", "u", "n", "t", "s", "_">> \o classify_sheet_type(sheet_name), row_index),
          description |-> description.s,
          business_line |-> "accounts",
          table_type |-> <<"a", "c", "c", "o", "u", "n", "t", "s", "_">> \o classify_sheet_type(sheet_name),
          rates |-> AccountsRowRates(<<>>, row_dict, classify_sheet_type(sheet_name), 1),
          document_id |-> document_id,
          source_position |-> [sheet |-> sheet_name, row |-> row_index, headers |-> headers]]

extract_service_from_row(row_data, headers, sheet_name, row_index, document_id) ==
    IF row_data = <<>> THEN NoneVal
    ELSE AccountsServiceOf(RowDict(headers, row_data, 1, <<>>),
                           _find_description_in_row(RowDict(headers, row_data, 1, <<>>)),
                           headers, sheet_name, row_index, document_id)

-----------------------------------------------------------------------------
(* A data row handed to the accounts strategy                              *)

MaxRowCells == 3

\* header rows as extract_headers leaves them
StrategyHeaders ==
    {<<<<"d", "e", "s", "c", "r", "i", "p", "c", "i", "o", "n">>, <<"p", "l", "a", "n", "_", "g", "_", "z", "e", "r", "o">>, <<"t", "a", "s", "a", "_", "e", "a">>>>,
     <<<<"p", "r", "o", "d", "u", "c", "t", "o">>, <<"p", "l", "a", "n", "_", "g", "_", "z", "e", "r", "o">>, <<"t", "i", "p", "o">>>>,
     <<<<"c", "o", "l", "u", "m", "n", "_", "1">>, <<"t", "a", "r", "i", "f", "a">>, <<"c", "o", "l", "u", "m", "n", "_", "3">>>>,
     <<<<"c", "o", "n", "c", "e", "p", "t", "o">>, <<"d", "e", "t", "a", "l", "l", "e">>, <<"l", "i", "m", "i", "t", "e", "_", "d", "i", "a", "r", "i", "o">>>>}

StrategyCells ==
    {NoneVal, StrVal(<<" ">>), StrVal(<<"R", "e", "t", "i", "r", "o", " ", "e", "n", " ", "c", "a", "j", "e", "r", "o">>), StrVal(<<"8", ".", "9", "9", "0">>),
     StrVal(<<"$", " ", "2", "5", ".", "0", "0", "0">>), IntVal(FALSE, <<"7">>)}

StrategySheets == {<<"T", "A", "R", "I", "F", "A", "S">>, <<"L", "I", "M", "I", "T", "E", "S">>, <<"T", "A", "S", "A", "S">>}

StrategyRows == UNION {[1..k -> StrategyCells] : k \in 0..MaxRowCells}

InitStrategy ==
    /\ operand \in [headers : StrategyHeaders, row_data : StrategyRows,
                    sheet_name : StrategySheets]
    /\ outcome = Unused
    /\ pc = "ready"
    /\ PipelineUnused
    /\ ProcessUnused

ExtractServiceFromRow ==
    /\ pc = "ready"
    /\ \E document_id \in DocumentIds :
          outcome' = extract_service_from_row(operand.row_data, operand.headers,
                                              operand.sheet_name, 2, document_id)
    /\ pc' = "extracted"
    /\ UNCHANGED operand
    /\ UNCHANGED <<pipelineVars, processVars>>

NextStrategy == ExtractServiceFromRow

SpecStrategy == InitStrategy /\ [][NextStrategy]_vars

\* a text made only of digits, separators, sign, '$' and blanks, with a digit
PurelyNumeric(s) ==
    /\ \A i \in 1..Len(s) : s[i] \in Digits \cup {".", ",", "-", "$", " "}
    /\ \E i \in 1..Len(s) : s[i] \in Digits

\* the row dict of the row under study
StrategyRowDict == RowDict(operand.headers, operand.row_data, 1, <<>>)

\* the non-blank cells of the row that are not purely numeric
TextEntries(row_dict) ==
    {i \in 1..Len(row_dict) :
        HasStrippedText(row_dict[i].value) /\ ~PurelyNumeric(PyStr(row_dict[i].value))}

\* C27: when no header that matches a description pattern has a non-blank
\* cell, the description is the first non-blank cell of the row that is not
\* purely numeric and the row yields a service; the row yields None only
\* when it has no such cell.
C27_FallbackDescription ==
    (pc = "extracted" /\ operand.row_data # <<>>
       /\ DescriptionHits(StrategyRowDict) = {}) =>
        IF TextEntries(StrategyRowDict) # {}
        THEN /\ outcome # NoneVal
             /\ outcome.description =
                   Strip(PyStr(StrategyRowDict[MinOfSet(TextEntries(StrategyRowDict))].value))
        ELSE outcome = NoneVal
-----------------------------------------------------------------------------
(* A traditional-services sheet through the pipeline: one value column     *)
(* headed "VALOR (Sin IVA)"                                                *)

MaxTraditionalRows == 3

TraditionalTitleRow == <<StrVal(<<"T", "a", "r", "i", "f", "a", "s", " ", "2", "0", "2", "4">>), NaNVal, NaNVal, NaNVal>>

TraditionalHeader ==
    <<StrVal(<<"D", "e", "s", "c", "r", "i", "p", "c", "i", "ó", "n">>), StrVal(ValorSinIva), StrVal(<<"A", "p", "l", "i", "c", "a", " ", "I", "v", "a">>),
      StrVal(<<"F", "r", "e", "c", "u", "e", "n", "c", "i", "a">>)>>

TraditionalDescriptions == {<<"C", "e", "r", "t", "i", "f", "i", "c", "a", "c", "i", "ó", "n", " ", "b", "a", "n", "c", "a", "r", "i", "a">>, <<"E", "x", "t", "r", "a", "c", "t", "o", " ", "a", "d", "i", "c", "i", "o", "n", "a", "l">>}

TraditionalValues ==
    {IntVal(FALSE, <<"8", "9", "9", "0">>), FloatVal(FALSE, <<"8">>, <<"5">>),
     StrVal(<<"N", "o", " ", "a", "p", "l", "i", "c", "a">>), NaNVal}

TraditionalRows ==
    {<<StrVal(description), value, StrVal(<<"S", "i">>), StrVal(<<"M", "e", "n", "s", "u", "a", "l">>)>> :
        description \in TraditionalDescriptions, value \in TraditionalValues}

TraditionalSheets ==
    {<<TraditionalTitleRow, TraditionalHeader>> \o body :
        body \in UNION {[1..k -> TraditionalRows] : k \in 1..MaxTraditionalRows}}

InitTraditional ==
    /\ sheet \in TraditionalSheets
    /\ pc = "ready"
    /\ tables = Unused /\ transformed = Unused /\ report = Unused
    /\ DomainUnused
    /\ cell = Unused /\ rate = Unused /\ num = Unused /\ shape = Unused
    /\ table = Unused /\ ttype = Unused /\ vdata = Unused

NextTraditional == ExtractTables \/ TransformData \/ ValidateData

SpecTraditional == InitTraditional /\ [][NextTraditional]_vars

\* the services of the traditional_services table of the transformed document
TraditionalServices ==
    IF transformed.tag = "raise" THEN {}
    ELSE UNION {Range(transformed.value.tables[i].value.services) :
                   i \in {k \in 1..Len(transformed.value.tables) :
                             transformed.value.tables[k].key = "traditional_services"}}

\* C28: in a table classified traditional_services because of its
\* "VALOR (Sin IVA)" header, a row with a number in that column gives a
\* service whose single rate is fixed with that number, never not_applicable.
C28_TraditionalRateFromValueColumn ==
    pc \in {"transformed", "aborted", "validated"} =>
        \A i \in 1..Len(tables[1].value) :
            classify_table_type(tables[1].value[i]) = Return("traditional_services") =>
                \A r \in 1..Len(tables[1].value[i].data) :
                    LET row == tables[1].value[i].data[r]
                    IN  (/\ ValorSinIva \in DOMAIN row
                         /\ row[ValorSinIva].kind = "num"
                         /\ DescripcionKey \in DOMAIN row
                         /\ row[DescripcionKey].kind = "str") =>
                            \E service \in TraditionalServices :
                               /\ service.description = Strip(row[DescripcionKey].s)
                               /\ service.rate = FixedRate(row[ValorSinIva])
-----------------------------------------------------------------------------
(* The two numeric parsers on the same text                                *)

\* digits with '.' and ',' separators, with or without a leading '$'
SeparatedNumbers == {ShapeText(sh) : sh \in NumericShapes}

InitParsers ==
    /\ operand \in SeparatedNumbers
    /\ outcome = Unused
    /\ pc = "ready"
    /\ PipelineUnused
    /\ ProcessUnused

\* ExcelProcessorService.parse_colombian_number
ParseColombianNumber ==
    /\ pc = "ready"
    /\ outcome' = [colombian |-> parse_colombian_number(operand)]
    /\ pc' = "colombian_parsed"
    /\ UNCHANGED operand
    /\ UNCHANGED <<pipelineVars, processVars>>

\* AccountsBusinessRules._extract_numeric_value on the same text
ExtractNumericOfText ==
    /\ pc = "colombian_parsed"
    /\ outcome' = [colombian |-> outcome.colombian,
                   extracted |-> _extract_numeric_value(operand)]
    /\ pc' = "both_parsed"
    /\ UNCHANGED operand
    /\ UNCHANGED <<pipelineVars, processVars>>

NextParsers == ParseColombianNumber \/ ExtractNumericOfText

SpecParsers == InitParsers /\ [][NextParsers]_vars

\* a Decimal and a float that are the same number
SameNumber(dec, flt) ==
    /\ StripLeadingZeros(dec.int) = StripLeadingZeros(flt.int)
    /\ StripTrailingZeros(dec.frac) = StripTrailingZeros(flt.frac)
    /\ \/ dec.neg = flt.neg
       \/ StripLeadingZeros(dec.int) = <<>> /\ StripTrailingZeros(dec.frac) = <<>>

\* C29: on every text made of digits with '.' and ',' separators, with or
\* without a leading '$', parse_colombian_number and _extract_numeric_value
\* return the same numeric value.
C29_ParsersAgree ==
    pc = "both_parsed" =>
        /\ outcome.extracted.tag = "return"
        /\ outcome.colombian # NoneVal
        /\ outcome.extracted.value.kind = "num"
        /\ SameNumber(outcome.colombian, outcome.extracted.value)
====
